---- MODULE Spec2Model ----
(***************************************************************************)
(* Model of the DRM mode-configuration core (linux-core/drm_crtc.c): the   *)
(* entity store of one device (outputs, CRTCs, framebuffers, modes and the *)
(* identifier registry), the mode-apply protocol drm_crtc_set_mode, the    *)
(* power-off sweep drm_disable_unused_functions and the configuration      *)
(* transaction drm_crtc_set_config.                                        *)
(*                                                                         *)
(* Driver callbacks (the drm_crtc_funcs / drm_output_funcs tables) are     *)
(* external: every call is appended to the log `calls`, and the value a    *)
(* mode_fixup callback returns is an input of the action.                  *)
(***************************************************************************)
EXTENDS Integers, Sequences, FiniteSets

\* ------------------------------------------------------------------ bounds
NumCrtcs   == 2     \* CRTCs the driver created (crtc_list order 1..NumCrtcs)
NumOutputs == 2     \* outputs the driver created (output_list order)
NumFbs     == 1     \* framebuffers in fb_list
NumModes   == 2     \* mode objects a caller can pass in
MaxPos     == 1     \* scan-out origins x, y range over 0..MaxPos
SpareIds   == 1     \* identifiers the registry can still hand out after init
MaxCalls   == 2     \* entry-point calls in one run
MaxIoctls  == 3     \* calls in one run that has user-space ioctls
MaxFbs     == 2     \* framebuffers user space can have at one time
NumFiles   == 2     \* open files (struct drm_file) of the device
MaxProps   == 2     \* properties the driver can have at one time

NULL == 0

CRTCs   == 1..NumCrtcs
Outputs == 1..NumOutputs
Fbs     == 1..NumFbs
Pos     == 0..MaxPos

\* Scan-out origins a caller asks for: the origin and moves along one axis.
Positions == {p \in Pos \X Pos : p[1] = 0 \/ p[2] = 0}

\* Return codes of drm_crtc_set_config.
EINVAL == 22
ENOMEM == 12

\* ------------------------------------------------------------------- modes
\* A drm_display_mode: its identifier and its timing (one field stands for the
\* timing set clock/hdisplay/.../flags).
ModeObj(i) == [mode_id |-> NumCrtcs + NumOutputs + NumFbs + i,
               hdisplay |-> 1 + (i % 2)]

ModePool == {ModeObj(i) : i \in 1..NumModes}

\* A kzalloc'ed struct drm_display_mode embedded in a fresh CRTC.
ZeroMode == [mode_id |-> 0, hdisplay |-> 0]

\* The null mode pointer (set->mode == NULL, crtc->desired_mode == NULL).
NoMode == [mode_id |-> 0, hdisplay |-> 0]

\* drm_mode_equal (drm_modes.c): equality of the timing set, identifier and
\* list linkage excluded.
drm_mode_equal(a, b) == a.hdisplay = b.hdisplay

\* ---------------------------------------------------------------- state
VARIABLES
    output_crtc,   \* output->crtc for every output (NULL when unbound)
    crtc,          \* the fields of every struct drm_crtc
    has_base,      \* crtc->funcs->mode_set_base != NULL
    crtc_idr,      \* dev->mode_config.crtc_idr: the identifiers in use
    calls,         \* driver callbacks invoked by the call in `last`, in order
    last,          \* the call that has just returned: arguments, locals, result
    ncalls         \* entry-point calls made so far

\* What probing and the driver left in every struct drm_output, and the
\* device's hotplug counter.
VARIABLES
    out_status,       \* output->status
    out_modes,        \* output->modes, in list order
    possible_crtcs,   \* output->possible_crtcs: the CRTC indices whose bit is set
    possible_clones,  \* output->possible_clones: the bits set
    hotplug_counter   \* dev->mode_config.hotplug_counter

probe_vars == <<out_status, out_modes, possible_crtcs, possible_clones,
                hotplug_counter>>

\* The entities of the device lists, the framebuffers every open file owns,
\* and the ioctl that has just returned.
VARIABLES
    ents,             \* crtc_list, output_list, fb_list, property_list, ...
    file_fbs,         \* file_priv->fbs of every open file
    released,         \* identifiers drm_idr_put freed and nobody got since
    ioctl             \* the ioctl in progress: arguments and result

store_vars == <<ents, file_fbs, released, ioctl>>

\* The two other mode lists of every struct drm_output.
VARIABLES
    probed_modes,     \* output->probed_modes, in list order
    user_modes        \* output->user_modes, in list order

list_vars == <<probed_modes, user_modes>>

\* The properties of the device and the property slots of every output.
VARIABLES
    props,            \* flags, values[] and enum_blob_list of every property
    out_props         \* output->property_ids[] and output->property_values[]

prop_vars == <<props, out_props>>

\* The mode_config mutex and the threads inside an entry point.
VARIABLES
    mutex,            \* dev->mode_config.mutex: the thread holding it, or NULL
    thread            \* every thread's entry point, position and locals

lock_vars == <<mutex, thread>>

vars == <<output_crtc, crtc, has_base, crtc_idr, calls, last, ncalls,
          probe_vars, store_vars, list_vars, prop_vars, lock_vars>>

\* ------------------------------------------------------- property slots
\* The length of output->property_ids[] and output->property_values[].
DRM_OUTPUT_MAX_PROPERTY == 2

\* The slot arrays of a new output (kzalloc): every identifier 0.
NoSlots ==
    [ids |-> [i \in 1..DRM_OUTPUT_MAX_PROPERTY |-> 0],
     values |-> [i \in 1..DRM_OUTPUT_MAX_PROPERTY |-> 0]]

\* ------------------------------------------------------ identifier registry
InitialIds == 1..(NumCrtcs + NumOutputs + NumFbs + NumModes)

IdSpace == 1..(NumCrtcs + NumOutputs + NumFbs + NumModes + SpareIds)

\* drm_idr_get: the lowest free identifier >= 1, or 0 when idr_pre_get
\* cannot get memory.
drm_idr_get(idr) ==
    IF IdSpace \ idr = {} THEN 0
    ELSE CHOOSE i \in IdSpace \ idr : \A j \in IdSpace \ idr : i <= j

\* The registry after idr_get_new_above stored id (nothing stored for 0).
IdrAdd(idr, id) == IF id = 0 THEN idr ELSE idr \cup {id}

\* drm_idr_put / drm_mode_destroy: idr_remove(id).
drm_idr_put(idr, id) == idr \ {id}

\* ----------------------------------------------------------- callback log
Call(fn, obj, n, arg, ret) ==
    [fn |-> fn, obj |-> obj, n |-> n, arg |-> arg, ret |-> ret]

OutputList == [i \in 1..NumOutputs |-> i]
CrtcList   == [i \in 1..NumCrtcs |-> i]

\* The outputs with output->crtc == c, in output_list order.
BoundTo(oc, c) ==
    LET Test(o) == oc[o] = c IN SelectSeq(OutputList, Test)

\* list_for_each_entry(output, ...) { if (output->crtc != crtc) continue;
\* output->funcs->fn(output, ...); }
OutputCalls(fn, oc, c) ==
    LET B == BoundTo(oc, c)
    IN [k \in 1..Len(B) |-> Call(fn, "output", B[k], <<>>, TRUE)]

\* Faulty variant of drm_crtc_in_use: true as soon as any output has a CRTC.
drm_crtc_in_use_AnyCrtc(oc, c) == \E o \in Outputs : oc[o] # NULL

\* drm_crtc_in_use: some output's crtc pointer is this CRTC.
drm_crtc_in_use(oc, c) == \E o \in Outputs : oc[o] = c

\* Faulty variant of FixupCalls: a rejecting output does not end the loop.
FixupCalls_NoStop(oc, c, okOut, okCrtc) ==
    LET B == BoundTo(oc, c)
    IN [k \in 1..Len(B) |-> Call("mode_fixup", "output", B[k], <<>>, okOut[B[k]])]
       \o <<Call("mode_fixup", "crtc", c, <<>>, okCrtc)>>

\* The fixup phase of drm_crtc_set_mode: mode_fixup on every bound output in
\* list order, stopping at the first that returns false, then on the CRTC.
FixupCalls(oc, c, okOut, okCrtc) ==
    LET B    == BoundTo(oc, c)
        Rej  == {k \in 1..Len(B) : ~okOut[B[k]]}
        stop == IF Rej = {} THEN Len(B)
                ELSE CHOOSE k \in Rej : \A j \in Rej : k <= j
        outs == [k \in 1..stop |-> Call("mode_fixup", "output", B[k], <<>>, okOut[B[k]])]
    IN IF Rej = {}
       THEN Append(outs, Call("mode_fixup", "crtc", c, <<>>, okCrtc))
       ELSE outs

\* Faulty variant of ApplyCalls: the outputs' mode_set runs before the CRTC's.
ApplyCalls_OutputsFirst(oc, c, x, y) ==
    OutputCalls("prepare", oc, c)
    \o <<Call("prepare", "crtc", c, <<>>, TRUE)>>
    \o OutputCalls("mode_set", oc, c)
    \o <<Call("mode_set", "crtc", c, <<x, y>>, TRUE)>>
    \o <<Call("commit", "crtc", c, <<>>, TRUE)>>
    \o OutputCalls("commit", oc, c)

\* The prepare / mode_set / commit phase of drm_crtc_set_mode.
ApplyCalls(oc, c, x, y) ==
    OutputCalls("prepare", oc, c)
    \o <<Call("prepare", "crtc", c, <<>>, TRUE)>>
    \o <<Call("mode_set", "crtc", c, <<x, y>>, TRUE)>>
    \o OutputCalls("mode_set", oc, c)
    \o <<Call("commit", "crtc", c, <<>>, TRUE)>>
    \o OutputCalls("commit", oc, c)

\* The power level drm_disable_unused_functions passes to every dpms callback.
DPMSModeOff == "off"

\* Faulty variant of DisableCalls: the CRTC loop tests enabled, not !enabled.
DisableCalls_EnabledCrtcs(oc, cr) ==
    LET NoCrtc(o) == oc[o] = NULL
        On(c)     == cr[c].enabled
        os == SelectSeq(OutputList, NoCrtc)
        cs == SelectSeq(CrtcList, On)
    IN [k \in 1..Len(os) |-> Call("dpms", "output", os[k], <<DPMSModeOff>>, TRUE)]
       \o [k \in 1..Len(cs) |-> Call("dpms", "crtc", cs[k], <<DPMSModeOff>>, TRUE)]

\* Faulty variant of DisableCalls: the output loop tests output->crtc, not
\* !output->crtc.
DisableCalls_BoundOutputs(oc, cr) ==
    LET HasCrtc(o) == oc[o] # NULL
        Off(c)     == ~cr[c].enabled
        os == SelectSeq(OutputList, HasCrtc)
        cs == SelectSeq(CrtcList, Off)
    IN [k \in 1..Len(os) |-> Call("dpms", "output", os[k], <<DPMSModeOff>>, TRUE)]
       \o [k \in 1..Len(cs) |-> Call("dpms", "crtc", cs[k], <<DPMSModeOff>>, TRUE)]

\* drm_disable_unused_functions: dpms(DPMSModeOff) on every output without a
\* CRTC, then on every CRTC that is not enabled.
DisableCalls(oc, cr) ==
    LET NoCrtc(o) == oc[o] = NULL
        Off(c)    == ~cr[c].enabled
        os == SelectSeq(OutputList, NoCrtc)
        cs == SelectSeq(CrtcList, Off)
    IN [k \in 1..Len(os) |-> Call("dpms", "output", os[k], <<DPMSModeOff>>, TRUE)]
       \o [k \in 1..Len(cs) |-> Call("dpms", "crtc", cs[k], <<DPMSModeOff>>, TRUE)]

\* ------------------------------------------------------- drm_crtc_set_mode
\* What drm_crtc_set_mode restores at its `done:` label when ret is false.
RestoreSaved(cr, c, saved) ==
    [cr EXCEPT ![c].mode = saved.mode, ![c].x = saved.x, ![c].y = saved.y]

\* The result of drm_crtc_set_mode(c, mode, x, y) on bindings oc, CRTCs cr and
\* registry idr: the new CRTC fields and registry, the callbacks invoked, the
\* return value, and whether a null mode_set_base pointer was called.
drm_crtc_set_mode(oc, cr, idr, hb, c, mode, x, y, okOut, okCrtc) ==
    LET adj   == drm_idr_get(idr)               \* drm_mode_duplicate
        idr1  == IdrAdd(idr, adj)
        inuse == drm_crtc_in_use(oc, c)
        cr1   == [cr EXCEPT ![c].enabled = inuse]
        saved == cr[c]
        cr2   == [cr1 EXCEPT ![c].mode = mode, ![c].x = x, ![c].y = y]
        fix   == FixupCalls(oc, c, okOut, okCrtc)
    IN  IF ~inuse
        THEN [crtc |-> cr1, idr |-> idr1, calls |-> <<>>,
              ret |-> TRUE, nullcall |-> FALSE]
        ELSE IF drm_mode_equal(saved.mode, mode) /\ (saved.x # x \/ saved.y # y)
        THEN [crtc |-> cr2, idr |-> idr1,
              calls |-> <<Call("mode_set_base", "crtc", c, <<x, y>>, TRUE)>>,
              ret |-> TRUE, nullcall |-> ~hb[c]]
        ELSE IF ~fix[Len(fix)].ret
        THEN [crtc |-> RestoreSaved(cr2, c, saved), idr |-> idr1, calls |-> fix,
              ret |-> FALSE, nullcall |-> FALSE]
        ELSE [crtc |-> cr2, idr |-> drm_idr_put(idr1, adj),
              calls |-> fix \o ApplyCalls(oc, c, x, y),
              ret |-> TRUE, nullcall |-> FALSE]

\* ----------------------------------------------------- drm_crtc_set_config
\* Faulty variant of NewCrtc: an unlisted output keeps the CRTC.
NewCrtc_KeepsUnlisted(oc, c, outs, o) ==
    IF o \in outs THEN c ELSE oc[o]

\* new_crtc for one output in the binding loop of drm_crtc_set_config.
NewCrtc(oc, c, outs, o) ==
    IF o \in outs THEN c
    ELSE IF oc[o] = c THEN NULL
    ELSE oc[o]

NewBindings(oc, c, outs) == [o \in Outputs |-> NewCrtc(oc, c, outs, o)]

\* flip_or_move: the framebuffer or the position differs.
FlipOrMove(cr, c, x, y, fb) ==
    cr[c].fb # fb \/ x # cr[c].x \/ y # cr[c].y

\* Faulty variant of Changed: any move forces changed, mode_set_base or not.
Changed_OnAnyMove(oc, cr, hb, c, mode, x, y, outs, fb) ==
    \/ mode # NoMode /\ ~drm_mode_equal(mode, cr[c].mode)
    \/ [o \in Outputs |-> IF o \in outs THEN c
                           ELSE IF oc[o] = c THEN NULL ELSE oc[o]] # oc
    \/ cr[c].fb # fb \/ x # cr[c].x \/ y # cr[c].y

\* changed, as it stands when `if (changed)` is evaluated.
Changed(oc, cr, hb, c, mode, x, y, outs, fb) ==
    \/ mode # NoMode /\ ~drm_mode_equal(mode, cr[c].mode)
    \/ NewBindings(oc, c, outs) # oc
    \/ FlipOrMove(cr, c, x, y, fb) /\ ~hb[c]

\* Faulty variant of Rollback: save_enabled is not put back.
Rollback_KeepsEnabled(cr, c, save_enabled) == cr

\* The rollback of drm_crtc_set_config after drm_crtc_set_mode returned false.
Rollback(cr, c, save_enabled) == [cr EXCEPT ![c].enabled = save_enabled]

\* On success: desired_x, desired_y, desired_mode.
RecordDesired(cr, c, mode, x, y) ==
    [cr EXCEPT ![c].desired_mode = mode, ![c].desired_x = x, ![c].desired_y = y]

\* Faulty variant of RebaseCalls: the CRTC's old position is passed.
RebaseCalls_OldPosition(cr, c, x, y) ==
    <<Call("mode_set_base", "crtc", c, <<cr[c].x, cr[c].y>>, TRUE)>>

\* The reposition-only branch: crtc->funcs->mode_set_base(crtc, set->x, set->y).
RebaseCalls(cr, c, x, y) ==
    <<Call("mode_set_base", "crtc", c, <<x, y>>, TRUE)>>

Request(op, c, mode, x, y, outs, fb) ==
    [op |-> op, crtc |-> c, mode |-> mode, x |-> x, y |-> y,
     outputs |-> outs, fb |-> fb]

NoRequest == Request("none", NULL, NoMode, 0, 0, {}, NULL)

\* The store as the call found it (drm_crtc_set_config keeps part of it in
\* save_crtcs and save_enabled).
Pre == [output_crtc |-> output_crtc, crtc |-> crtc, crtc_idr |-> crtc_idr]

Done(req, ret, changed, flip) ==
    [req |-> req, ret |-> ret, changed |-> changed, flip_or_move |-> flip,
     oops |-> FALSE, pre |-> Pre]

\* The handler called a null function pointer and never returned.
Oops(req, changed, flip) ==
    [req |-> req, ret |-> 0, changed |-> changed, flip_or_move |-> flip,
     oops |-> TRUE, pre |-> Pre]

\* A caller may enter: no call is being looked at, no handler has oopsed (an
\* oops leaves the device unusable), and the run has calls left.
CanCall == last.req.op = "none" /\ ncalls < MaxCalls

\* drm_crtc_set_config with set->crtc == NULL: -EINVAL.
SetConfigNoCrtc(mode, x, y, outs, fb) ==
    /\ CanCall
    /\ ncalls' = ncalls + 1
    /\ calls' = <<>>
    /\ last' = Done(Request("set_config", NULL, mode, x, y, outs, fb),
                    -EINVAL, FALSE, FALSE)
    /\ UNCHANGED <<output_crtc, crtc, has_base, crtc_idr, probe_vars, list_vars, prop_vars, lock_vars, store_vars>>

\* drm_crtc_set_config: kzalloc of save_crtcs fails, -ENOMEM.
SetConfigNoMem(c, mode, x, y, outs, fb) ==
    /\ CanCall
    /\ ncalls' = ncalls + 1
    /\ calls' = <<>>
    /\ last' = Done(Request("set_config", c, mode, x, y, outs, fb),
                    -ENOMEM, FALSE, FALSE)
    /\ UNCHANGED <<output_crtc, crtc, has_base, crtc_idr, probe_vars, list_vars, prop_vars, lock_vars, store_vars>>

\* drm_crtc_set_config(set) with set->crtc = c.
SetConfigFrom(idr, c, mode, x, y, outs, fb, okOut, okCrtc) ==
    LET req     == Request("set_config", c, mode, x, y, outs, fb)
        save_enabled == crtc[c].enabled
        flip    == FlipOrMove(crtc, c, x, y, fb)
        oc1     == NewBindings(output_crtc, c, outs)
        changed == Changed(output_crtc, crtc, has_base, c, mode, x, y, outs, fb)
        cr1     == [crtc EXCEPT ![c].fb = fb, ![c].enabled = (mode # NoMode)]
        r       == drm_crtc_set_mode(oc1, cr1, idr, has_base, c, mode, x, y,
                                     okOut, okCrtc)
        crOk    == RecordDesired(r.crtc, c, mode, x, y)
    IN
    /\ UNCHANGED has_base
    /\ IF changed /\ mode # NoMode /\ r.nullcall
       THEN \* the null mode_set_base pointer is called: the kernel oopses
            /\ output_crtc' = oc1
            /\ crtc' = r.crtc
            /\ crtc_idr' = r.idr
            /\ calls' = r.calls
            /\ last' = Oops(req, changed, flip)
       ELSE IF changed /\ mode # NoMode /\ ~r.ret
       THEN /\ output_crtc' = output_crtc
            /\ crtc' = Rollback(r.crtc, c, save_enabled)
            /\ crtc_idr' = r.idr
            /\ calls' = r.calls
            /\ last' = Done(req, -EINVAL, changed, flip)
       ELSE IF changed /\ mode # NoMode
       THEN /\ output_crtc' = oc1
            /\ crtc' = crOk
            /\ crtc_idr' = r.idr
            /\ calls' = r.calls \o DisableCalls(oc1, crOk)
            /\ last' = Done(req, 0, changed, flip)
       ELSE IF changed
       THEN /\ output_crtc' = oc1
            /\ crtc' = cr1
            /\ calls' = DisableCalls(oc1, cr1)
            /\ last' = Done(req, 0, changed, flip)
            /\ crtc_idr' = idr
       ELSE IF flip
       THEN /\ crtc' = [crtc EXCEPT ![c].fb = fb]
            /\ calls' = RebaseCalls(crtc, c, x, y)
            /\ last' = Done(req, 0, changed, flip)
            /\ crtc_idr' = idr
            /\ UNCHANGED output_crtc
       ELSE /\ calls' = <<>>
            /\ last' = Done(req, 0, changed, flip)
            /\ crtc_idr' = idr
            /\ UNCHANGED <<output_crtc, crtc>>

\* drm_crtc_set_config called by an in-kernel caller.
SetConfig(c, mode, x, y, outs, fb, okOut, okCrtc) ==
    /\ CanCall
    /\ ncalls' = ncalls + 1
    /\ SetConfigFrom(crtc_idr, c, mode, x, y, outs, fb, okOut, okCrtc)
    /\ released' = released \ crtc_idr'
    /\ UNCHANGED <<probe_vars, list_vars, prop_vars, lock_vars, ents, file_fbs, ioctl>>

\* drm_crtc_set_mode called on its own (it is exported; drm_initial_config and
\* drm_hotplug_stage_two call it with a CRTC's desired mode).
SetMode(c, mode, x, y, okOut, okCrtc) ==
    LET r   == drm_crtc_set_mode(output_crtc, crtc, crtc_idr, has_base, c, mode,
                                 x, y, okOut, okCrtc)
        req == Request("set_mode", c, mode, x, y, {}, NULL)
    IN
    /\ CanCall
    /\ ncalls' = ncalls + 1
    /\ crtc' = r.crtc
    /\ crtc_idr' = r.idr
    /\ calls' = r.calls
    /\ last' = IF r.nullcall THEN Oops(req, FALSE, FALSE)
               ELSE Done(req, IF r.ret THEN 1 ELSE 0, FALSE, FALSE)
    /\ released' = released \ r.idr
    /\ UNCHANGED <<output_crtc, has_base, probe_vars, list_vars, prop_vars, lock_vars, ents, file_fbs, ioctl>>

\* drm_disable_unused_functions called on its own.
DisableUnused ==
    /\ CanCall
    /\ ncalls' = ncalls + 1
    /\ calls' = DisableCalls(output_crtc, crtc)
    /\ last' = Done(Request("disable_unused", NULL, NoMode, 0, 0, {}, NULL),
                    0, FALSE, FALSE)
    /\ UNCHANGED <<output_crtc, crtc, has_base, crtc_idr, probe_vars, list_vars, prop_vars, lock_vars, store_vars>>

\* No ioctl is in progress.
NoIoctl == [op |-> "none"]

\* The caller has its result: the record of the call is dropped and the next
\* call may enter.  After an oops nothing returns.
Return ==
    /\ last.req.op # "none"
    /\ ~last.oops
    /\ last' = [req |-> NoRequest, ret |-> 0, changed |-> FALSE,
                flip_or_move |-> FALSE, oops |-> FALSE, pre |-> Pre]
    /\ calls' = <<>>
    /\ UNCHANGED <<output_crtc, crtc, has_base, crtc_idr, ncalls>>
    /\ UNCHANGED <<probe_vars, list_vars, prop_vars, lock_vars, ents, file_fbs, released>>
    /\ ioctl' = NoIoctl

\* ------------------------------------------------- probing and assignment
\* Bits of output->possible_clones.
CloneBits == {1}

\* A mode on an output's list: timing, identifier and the type flags.
ListedModes ==
    {[mode_id |-> m.mode_id, hdisplay |-> m.hdisplay, type |-> t] :
        m \in ModePool, t \in {{}, {"PREFERRED"}}}

\* What probing can leave on output->modes: the validated, sorted list the
\* driver's get_modes and mode_valid callbacks produce (never empty: the
\* 640x480 fallback is added to an empty list).
ModeLists ==
    {<<m>> : m \in {l \in ListedModes : l.type = {}}}
    \cup {<<[mode_id |-> ModeObj(1).mode_id, hdisplay |-> ModeObj(1).hdisplay,
              type |-> {"PREFERRED"}],
             [mode_id |-> ModeObj(2).mode_id, hdisplay |-> ModeObj(2).hdisplay,
              type |-> {}]>>}
    \cup {<<m1, m2>> : m1 \in {l \in ListedModes : /\ l.mode_id = ModeObj(1).mode_id
                                                     /\ l.type = {}},
                       m2 \in {l \in ListedModes : l.mode_id = ModeObj(2).mode_id}}

\* What one probe of one output finds: detect()'s answer and, unless that is
\* "disconnected", the resulting list.
ProbeOutcomes ==
    {[status |-> "disconnected", modes |-> <<>>]}
    \cup {[status |-> "connected", modes |-> l] : l \in ModeLists}

\* drm_crtc_probe_single_output_modes: a disconnected output keeps its list.
drm_crtc_probe_single_output_modes(modes, found) ==
    IF found.status = "disconnected"
    THEN [status |-> found.status, modes |-> modes]
    ELSE [status |-> found.status, modes |-> found.modes]

\* drm_crtc_probe_output_modes: every output is probed.
drm_crtc_probe_output_modes(modes, found) ==
    [status |-> [o \in Outputs |->
                    drm_crtc_probe_single_output_modes(modes[o], found[o]).status],
     modes  |-> [o \in Outputs |->
                    drm_crtc_probe_single_output_modes(modes[o], found[o]).modes]]

\* output->id of the outputs of the device.
OutputId(o) == NumCrtcs + o

SetMin(S) == CHOOSE i \in S : \A j \in S : i <= j

\* Faulty variant of DesiredMode: the preferred flag is not looked at.
DesiredMode_First(modes) == modes[1]

\* des_mode in drm_pick_crtcs: the first mode of the list with the preferred
\* type bit, else the first mode of the list.
DesiredMode(modes) ==
    LET P == {k \in 1..Len(modes) : "PREFERRED" \in modes[k].type}
    IN IF P # {} THEN modes[SetMin(P)] ELSE modes[1]

\* `assigned` in drm_pick_crtcs: some other output has this CRTC.
Assigned(oc, o, c) ==
    \E o2 \in Outputs : OutputId(o2) # OutputId(o) /\ oc[o2] = c

\* The clone search of drm_pick_crtcs for output o on CRTC c: the mode of the
\* first match in loop order (other output, own mode, other's mode), NoMode
\* when the loops end without a match.
CloneMode(oc, modes, clones, o, c) ==
    LET Match(o2, k, k2) ==
            /\ OutputId(o2) # OutputId(o)
            /\ drm_mode_equal(modes[o][k], modes[o2][k2])
            /\ (clones[o] \cap clones[o2]) # {}
            /\ oc[o2] = c
        M == {t \in Outputs \X (1..Len(modes[o])) \X (1..NumModes) :
                 t[3] <= Len(modes[t[1]]) /\ Match(t[1], t[2], t[3])}
        Before(a, b) ==
            \/ a[1] < b[1]
            \/ a[1] = b[1] /\ a[2] < b[2]
            \/ a[1] = b[1] /\ a[2] = b[2] /\ a[3] <= b[3]
    IN IF M = {} THEN NoMode
       ELSE modes[o][(CHOOSE a \in M : \A b \in M : Before(a, b))[2]]

\* Faulty variant of PickCrtc: the scan direction follows the hotplug
\* counter, which is no input of the assignment.
PickCrtc_ByHistory(oc, modes, pc, clones, o, des) ==
    LET Free == {c \in CRTCs : c \in pc[o] /\ \A o2 \in Outputs \ {o} : oc[o2] # c}
    IN IF Free = {} THEN [crtc |-> NULL, mode |-> NoMode]
       ELSE IF hotplug_counter % 2 = 1
       THEN [crtc |-> CHOOSE c \in Free : \A d \in Free : d <= c, mode |-> des]
       ELSE [crtc |-> SetMin(Free), mode |-> des]

\* Faulty variant of PickCrtc: a CRTC another output has is not skipped.
PickCrtc_FirstEligible(oc, modes, pc, clones, o, des) ==
    IF pc[o] = {} THEN [crtc |-> NULL, mode |-> NoMode]
    ELSE [crtc |-> SetMin(pc[o]), mode |-> des]

\* Faulty variant of PickCrtc: scans the CRTCs from the last to the first.
PickCrtc_LastFit(oc, modes, pc, clones, o, des) ==
    LET Free == {c \in CRTCs : c \in pc[o] /\ ~Assigned(oc, o, c)}
    IN IF Free = {} THEN [crtc |-> NULL, mode |-> NoMode]
       ELSE [crtc |-> CHOOSE c \in Free : \A d \in Free : d <= c, mode |-> des]

\* The CRTC loop of drm_pick_crtcs for output o: the first CRTC in list order
\* whose bit is set in possible_crtcs and that no other output has; the mode
\* is des_mode, or the clone search's mode when that search matches.
PickCrtc(oc, modes, pc, clones, o, des) ==
    LET Ok(c) == c \in pc[o] /\ ~Assigned(oc, o, c)
        Fit == {c \in CRTCs : Ok(c)}
    IN IF Fit = {} THEN [crtc |-> NULL, mode |-> NoMode]
       ELSE LET c  == SetMin(Fit)
                cm == CloneMode(oc, modes, clones, o, c)
            IN [crtc |-> c, mode |-> IF cm # NoMode THEN cm ELSE des]

\* drm_pick_crtcs from output o on, in output_list order.
RECURSIVE PickFrom(_, _, _, _, _, _, _)
PickFrom(o, oc, cr, status, modes, pc, clones) ==
    IF o > NumOutputs THEN [output_crtc |-> oc, crtc |-> cr]
    ELSE LET oc0 == [oc EXCEPT ![o] = NULL]
         IN IF status[o] # "connected" \/ modes[o] = <<>>
            THEN PickFrom(o + 1, oc0, cr, status, modes, pc, clones)
            ELSE LET p == PickCrtc(oc0, modes, pc, clones, o,
                                   DesiredMode(modes[o]))
                 IN IF p.crtc = NULL
                    THEN PickFrom(o + 1, oc0, cr, status, modes, pc, clones)
                    ELSE PickFrom(o + 1, [oc0 EXCEPT ![o] = p.crtc],
                                  [cr EXCEPT ![p.crtc].desired_mode = p.mode],
                                  status, modes, pc, clones)

drm_pick_crtcs(oc, cr, status, modes, pc, clones) ==
    PickFrom(1, oc, cr, status, modes, pc, clones)

\* dev->driver->fb_probe: the driver may leave framebuffer fbp in crtc->fb.
FbProbe(cr, c, fbp) ==
    IF fbp = NULL THEN cr ELSE [cr EXCEPT ![c].fb = fbp]

\* The output loop of drm_initial_config from output o on: fb_probe for every
\* output with a CRTC and a desired mode, then drm_crtc_set_mode at (0, 0)
\* when the CRTC has a framebuffer.  oops: a null mode_set_base was called.
RECURSIVE SetupFrom(_, _, _, _, _, _, _, _)
SetupFrom(o, oc, cr, idr, hb, fbp, okOut, okCrtc) ==
    IF o > NumOutputs
    THEN [crtc |-> cr, idr |-> idr, calls |-> <<>>, oops |-> FALSE]
    ELSE IF oc[o] = NULL \/ cr[oc[o]].desired_mode = NoMode
    THEN SetupFrom(o + 1, oc, cr, idr, hb, fbp, okOut, okCrtc)
    ELSE LET c   == oc[o]
             cr1 == FbProbe(cr, c, fbp)
             pc  == <<Call("fb_probe", "crtc", c, <<o>>, TRUE)>>
             r   == drm_crtc_set_mode(oc, cr1, idr, hb, c, cr1[c].desired_mode,
                                      0, 0, okOut, okCrtc)
             skip == SetupFrom(o + 1, oc, cr1, idr, hb, fbp, okOut, okCrtc)
             rest == SetupFrom(o + 1, oc, r.crtc, r.idr, hb, fbp, okOut, okCrtc)
         IN IF cr1[c].fb = NULL
            THEN [skip EXCEPT !.calls = pc \o @]
            ELSE IF r.nullcall
            THEN [crtc |-> r.crtc, idr |-> r.idr, calls |-> pc \o r.calls,
                  oops |-> TRUE]
            ELSE [rest EXCEPT !.calls = pc \o r.calls \o @]

\* What a probe finds on the outputs outside O is what the last probe found
\* there: the displays change only at the outputs in O.
Settled(found, O) ==
    \A o \in Outputs \ O :
        out_status[o] # "unknown" =>
            /\ found[o].status = out_status[o]
            /\ found[o].status = "connected" => found[o].modes = out_modes[o]

\* drm_initial_config: probe, pick, set up every output, sweep.  It returns
\* `ret`, which stays false.
InitialConfig(found, fbp, okOut, okCrtc) ==
    LET pr  == drm_crtc_probe_output_modes(out_modes, found)
        pk  == drm_pick_crtcs(output_crtc, crtc, pr.status, pr.modes,
                              possible_crtcs, possible_clones)
        st  == SetupFrom(1, pk.output_crtc, pk.crtc, crtc_idr, has_base, fbp,
                         okOut, okCrtc)
        req == Request("initial_config", NULL, NoMode, 0, 0, {}, NULL)
    IN
    /\ CanCall
    /\ Settled(found, {})
    /\ ncalls' = ncalls + 1
    /\ out_status' = pr.status
    /\ out_modes' = pr.modes
    /\ output_crtc' = pk.output_crtc
    /\ crtc' = st.crtc
    /\ crtc_idr' = st.idr
    /\ calls' = IF st.oops THEN st.calls
                ELSE st.calls \o DisableCalls(pk.output_crtc, st.crtc)
    /\ last' = IF st.oops THEN Oops(req, FALSE, FALSE)
               ELSE Done(req, 0, FALSE, FALSE)
    /\ UNCHANGED <<has_base, possible_crtcs, possible_clones, hotplug_counter,
                   store_vars, list_vars, prop_vars, lock_vars>>

\* Faulty variant of CountHotplug: the event is not counted.
CountHotplug_Skip(n) == n

\* dev->mode_config.hotplug_counter++ at the head of drm_hotplug_stage_two.
CountHotplug(n) == n + 1

\* drm_hotplug_stage_two(dev, output o, connected).
Hotplug(o, connected, found, fbp, okOut, okCrtc) ==
    LET req == Request(IF connected THEN "hotplug" ELSE "unplug",
                       NULL, NoMode, 0, 0, {o}, NULL)
        has_config == /\ output_crtc[o] # NULL
                      /\ crtc[output_crtc[o]].desired_mode # NoMode
        pr  == drm_crtc_probe_output_modes(out_modes, found)
        pk  == IF has_config
               THEN [output_crtc |-> output_crtc, crtc |-> crtc]
               ELSE drm_pick_crtcs(output_crtc, crtc, pr.status, pr.modes,
                                   possible_crtcs, possible_clones)
        c   == pk.output_crtc[o]
        cr1 == FbProbe(pk.crtc, c, fbp)
        r   == drm_crtc_set_mode(pk.output_crtc, pk.crtc, crtc_idr, has_base, c,
                                 pk.crtc[c].desired_mode, 0, 0, okOut, okCrtc)
    IN
    /\ CanCall
    /\ Settled(found, {o})
    /\ ncalls' = ncalls + 1
    /\ hotplug_counter' = CountHotplug(hotplug_counter)
    /\ UNCHANGED <<has_base, possible_crtcs, possible_clones, store_vars, list_vars, prop_vars, lock_vars>>
    /\ IF ~connected
       THEN /\ calls' = <<>>
            /\ last' = Done(req, 0, FALSE, FALSE)
            /\ UNCHANGED <<out_status, out_modes, output_crtc, crtc, crtc_idr>>
       ELSE /\ out_status' = pr.status
            /\ out_modes' = pr.modes
            /\ output_crtc' = pk.output_crtc
            /\ IF c = NULL \/ pk.crtc[c].desired_mode = NoMode
               THEN /\ crtc' = pk.crtc
                    /\ calls' = <<>>
                    /\ last' = Done(req, 1, FALSE, FALSE)
                    /\ UNCHANGED crtc_idr
               ELSE IF ~has_config
               THEN /\ crtc' = cr1
                    /\ calls' = <<Call("fb_probe", "crtc", c, <<o>>, TRUE)>>
                                \o DisableCalls(pk.output_crtc, cr1)
                    /\ last' = Done(req, 0, FALSE, FALSE)
                    /\ UNCHANGED crtc_idr
               ELSE /\ crtc' = r.crtc
                    /\ crtc_idr' = r.idr
                    /\ calls' = <<Call("fb_resize", "crtc", c, <<>>, TRUE)>>
                                \o r.calls
                                \o (IF r.nullcall THEN <<>>
                                    ELSE DisableCalls(pk.output_crtc, r.crtc))
                    /\ last' = IF r.nullcall THEN Oops(req, FALSE, FALSE)
                               ELSE Done(req, 0, FALSE, FALSE)

\* ------------------------------------------------------------ entity store
FbAddrs == 1..MaxFbs
Files   == 1..NumFiles

\* An object on one of the device's lists: its kind, which object of that
\* kind it is (its address) and the value of its id field.
Ent(kind, n, id) == [kind |-> kind, n |-> n, id |-> id]

\* What idr_find returns for an identifier that is not in the registry.
NoEnt == Ent("none", 0, 0)

\* crtc_list and output_list after the driver's drm_crtc_create and
\* drm_output_create calls.
DeviceEnts ==
    {Ent("crtc", c, c) : c \in CRTCs}
    \cup {Ent("output", o, OutputId(o)) : o \in Outputs}

Listed(es, kind) == {e \in es : e.kind = kind}

\* idr_find(&dev->mode_config.crtc_idr, id): the pointer stored with id.  An
\* identifier in use that no listed object carries is that of a mode
\* (drm_mode_create keeps no list).
idr_find(idr, es, id) ==
    IF id \notin idr THEN NoEnt
    ELSE IF \E e \in es : e.id = id THEN CHOOSE e \in es : e.id = id
    ELSE Ent("mode", id, id)

\* The test every lookup makes on what idr_find returned,
\* `!obj || obj->id != id`, negated.  The id field is read through the struct
\* type the caller expects; alias says whether that read, made on an object
\* of another type, yields the identifier asked for.
Resolves(e, kind, alias) == e # NoEnt /\ (e.kind = kind \/ alias)

\* The pointer value of a listed object, as stored in crtc->fb.
Addr(e) == IF e.kind = "fb" THEN e.n ELSE MaxFbs + e.id

\* The identifiers freed and not handed out again, after an operation that
\* took the registry from idr to idr1.
Released(rel, idr, idr1) == (rel \cup (idr \ idr1)) \ idr1

\* drm_framebuffer_create at address n: the identifier is stored unchecked.
drm_framebuffer_create(idr, es, n) ==
    LET id == drm_idr_get(idr)
    IN [id |-> id, idr |-> IdrAdd(idr, id), ents |-> es \cup {Ent("fb", n, id)}]

\* Faulty variant of drm_framebuffer_destroy: the CRTCs keep their pointers.
drm_framebuffer_destroy_KeepRefs(cr, idr, es, n) ==
    LET e == CHOOSE f \in Listed(es, "fb") : f.n = n
    IN [crtc |-> cr, idr |-> drm_idr_put(idr, e.id), ents |-> es \ {e},
        put |-> [fb |-> n, id |-> e.id, refs |-> {c \in CRTCs : cr[c].fb = n}]]

\* drm_framebuffer_destroy of the framebuffer at address n: crtc->fb of every
\* CRTC using it is set to NULL, then drm_idr_put, then list_del.  put records
\* which CRTCs pointed at the framebuffer when drm_idr_put ran.
drm_framebuffer_destroy(cr, idr, es, n) ==
    LET e   == CHOOSE f \in Listed(es, "fb") : f.n = n
        cr1 == [c \in CRTCs |->
                   IF cr[c].fb = n THEN [cr[c] EXCEPT !.fb = NULL] ELSE cr[c]]
    IN [crtc |-> cr1, idr |-> drm_idr_put(idr, e.id), ents |-> es \ {e},
        put |-> [fb |-> n, id |-> e.id, refs |-> {c \in CRTCs : cr1[c].fb = n}]]

\* The store as an ioctl found it.
StorePre ==
    [ents |-> ents, crtc_idr |-> crtc_idr, crtc |-> crtc,
     output_crtc |-> output_crtc, file_fbs |-> file_fbs, released |-> released]

\* The ioctl that has just returned: its arguments, its return value, the
\* drm_idr_put calls it made and the store it found.
Ioctl(op, file, args, ret, puts) ==
    [op |-> op, file |-> file, args |-> args, ret |-> ret, puts |-> puts,
     pre |-> StorePre]

\* An ioctl may enter: as CanCall, with the call budget of the runs that have
\* ioctls.
CanIoctl == last.req.op = "none" /\ ncalls < MaxIoctls

\* An ioctl that is not a mode-set leaves this in `last`.
IoctlDone(op, ret) ==
    Done(Request(op, NULL, NoMode, 0, 0, {}, NULL), ret, FALSE, FALSE)

\* drm_mode_addfb by file f.  how: the size is outside the limits, the buffer
\* object handle is not valid, kzalloc fails, or none of these.
Addfb(f, how) ==
    LET Free == FbAddrs \ {e.n : e \in Listed(ents, "fb")}
        n    == SetMin(Free)
        r    == drm_framebuffer_create(crtc_idr, ents, n)
    IN
    /\ CanIoctl
    /\ ncalls' = ncalls + 1
    /\ calls' = <<>>
    /\ UNCHANGED <<output_crtc, crtc, has_base, probe_vars, list_vars, prop_vars, lock_vars>>
    /\ IF how # "ok"
       THEN /\ ioctl' = Ioctl("addfb", f, [how |-> how, id |-> 0], -EINVAL, <<>>)
            /\ last' = IoctlDone("addfb", -EINVAL)
            /\ UNCHANGED <<crtc_idr, ents, file_fbs, released>>
       ELSE /\ Free # {}
            /\ crtc_idr' = r.idr
            /\ ents' = r.ents
            /\ file_fbs' = [file_fbs EXCEPT ![f] = <<n>> \o @]
            /\ released' = Released(released, crtc_idr, r.idr)
            /\ ioctl' = Ioctl("addfb", f, [how |-> how, id |-> r.id], 0, <<>>)
            /\ last' = IoctlDone("addfb", 0)

\* The sequence without its elements equal to n (list_del).
Without(seq, n) == LET Keep(x) == x # n IN SelectSeq(seq, Keep)

InList(seq, n) == \E k \in DOMAIN seq : seq[k] = n

\* drm_mode_rmfb(id) by file f.
Rmfb(f, id, alias) ==
    LET e == idr_find(crtc_idr, ents, id)
        r == drm_framebuffer_destroy(crtc, crtc_idr, ents, e.n)
    IN
    /\ CanIoctl
    /\ ncalls' = ncalls + 1
    /\ calls' = <<>>
    /\ UNCHANGED <<output_crtc, has_base, probe_vars, list_vars, prop_vars, lock_vars>>
    /\ IF ~Resolves(e, "fb", alias) \/ e.kind # "fb" \/ ~InList(file_fbs[f], e.n)
       THEN /\ ioctl' = Ioctl("rmfb", f, [id |-> id, alias |-> alias], -EINVAL, <<>>)
            /\ last' = IoctlDone("rmfb", -EINVAL)
            /\ UNCHANGED <<crtc, crtc_idr, ents, file_fbs, released>>
       ELSE /\ crtc' = r.crtc
            /\ crtc_idr' = r.idr
            /\ ents' = r.ents
            /\ file_fbs' = [file_fbs EXCEPT ![f] = Without(@, e.n)]
            /\ released' = Released(released, crtc_idr, r.idr)
            /\ ioctl' = Ioctl("rmfb", f, [id |-> id, alias |-> alias], 0, <<r.put>>)
            /\ last' = IoctlDone("rmfb", 0)

\* drm_fb_release from framebuffer k of the file's list on.
RECURSIVE ReleaseFrom(_, _, _, _, _)
ReleaseFrom(fbs, k, cr, idr, es) ==
    IF k > Len(fbs) THEN [crtc |-> cr, idr |-> idr, ents |-> es, puts |-> <<>>]
    ELSE LET r    == drm_framebuffer_destroy(cr, idr, es, fbs[k])
             rest == ReleaseFrom(fbs, k + 1, r.crtc, r.idr, r.ents)
         IN [rest EXCEPT !.puts = <<r.put>> \o @]

\* drm_fb_release: file f is closed (and opened again with an empty list).
FbRelease(f) ==
    LET r == ReleaseFrom(file_fbs[f], 1, crtc, crtc_idr, ents)
    IN
    /\ CanIoctl
    /\ ncalls' = ncalls + 1
    /\ calls' = <<>>
    /\ crtc' = r.crtc
    /\ crtc_idr' = r.idr
    /\ ents' = r.ents
    /\ file_fbs' = [file_fbs EXCEPT ![f] = <<>>]
    /\ released' = Released(released, crtc_idr, r.idr)
    /\ ioctl' = Ioctl("fb_release", f, [id |-> 0], 0, r.puts)
    /\ last' = IoctlDone("fb_release", 0)
    /\ UNCHANGED <<output_crtc, has_base, probe_vars, list_vars, prop_vars, lock_vars>>

\* An ioctl that resolves one identifier and copies the object's fields to
\* user space (drm_mode_getcrtc, drm_mode_getoutput, drm_mode_getfb,
\* drm_mode_getproperty_ioctl, drm_mode_getblob_ioctl): -EINVAL when the
\* lookup test fails, else 0; the store is not written.
Lookup(op, kind, id, alias) ==
    LET e == idr_find(crtc_idr, ents, id)
        ret == IF Resolves(e, kind, alias) THEN 0 ELSE -EINVAL
    IN
    /\ CanIoctl
    /\ ncalls' = ncalls + 1
    /\ calls' = <<>>
    /\ ioctl' = Ioctl(op, 0, [id |-> id, alias |-> alias, found |-> e], ret, <<>>)
    /\ last' = IoctlDone(op, ret)
    /\ UNCHANGED <<output_crtc, crtc, has_base, crtc_idr, probe_vars, list_vars, prop_vars, lock_vars, ents,
                   file_fbs, released>>

\* The loop of drm_mode_getcrtc over output_list from output o on, ocount
\* being the bit the next matching output sets: `outputs |= 1 << (ocount++)`
\* runs, increment included, only for an output bound to CRTC c.
RECURSIVE GetcrtcOutputs(_, _, _, _)
GetcrtcOutputs(oc, c, o, ocount) ==
    IF o > NumOutputs THEN 0
    ELSE IF oc[o] = c
         THEN 2 ^ ocount + GetcrtcOutputs(oc, c, o + 1, ocount + 1)
         ELSE GetcrtcOutputs(oc, c, o + 1, ocount)

\* What drm_mode_getcrtc writes to crtc_resp for the CRTC c it found.
drm_mode_getcrtc(oc, cr, es, c) ==
    [x |-> cr[c].x, y |-> cr[c].y,
     fb_id |-> IF cr[c].fb = NULL THEN 0
               ELSE (CHOOSE e \in Listed(es, "fb") : e.n = cr[c].fb).id,
     outputs |-> IF cr[c].enabled THEN GetcrtcOutputs(oc, c, 1, 0) ELSE 0,
     mode |-> IF cr[c].enabled THEN cr[c].mode ELSE NoMode,
     mode_valid |-> IF cr[c].enabled THEN 1 ELSE 0]

\* drm_mode_getcrtc with its response: -EINVAL for an identifier that does
\* not resolve, otherwise crtc_resp filled in; nothing of the device changes.
GetcrtcReport(id) ==
    LET e == idr_find(crtc_idr, ents, id)
        ok == Resolves(e, "crtc", FALSE)
    IN
    /\ CanIoctl
    /\ ncalls' = ncalls + 1
    /\ calls' = <<>>
    /\ ioctl' = Ioctl("getcrtc", 0,
                      [id |-> id,
                       resp |-> IF ok
                                THEN drm_mode_getcrtc(output_crtc, crtc, ents, e.n)
                                ELSE NoEnt],
                      IF ok THEN 0 ELSE -EINVAL, <<>>)
    /\ last' = IoctlDone("getcrtc", IF ok THEN 0 ELSE -EINVAL)
    /\ UNCHANGED <<output_crtc, crtc, has_base, crtc_idr, probe_vars, list_vars, prop_vars, lock_vars, ents,
                   file_fbs, released>>

Getcrtc(id, alias)     == Lookup("getcrtc", "crtc", id, alias)

Getoutput(id, alias)   == Lookup("getoutput", "output", id, alias)

Getfb(id, alias)       == Lookup("getfb", "fb", id, alias)

Getproperty(id, alias) == Lookup("getproperty", "property", id, alias)

Getblob(id, alias)     == Lookup("getblob", "blob", id, alias)

\* drm_property_create called by the driver.  mem: the kzallocs succeed.
PropertyCreate(mem) ==
    LET Free == (1..MaxProps) \ {e.n : e \in Listed(ents, "property")}
        n    == SetMin(Free)
        id   == drm_idr_get(crtc_idr)
    IN
    /\ CanIoctl
    /\ ncalls' = ncalls + 1
    /\ calls' = <<>>
    /\ UNCHANGED <<output_crtc, crtc, has_base, probe_vars, list_vars, prop_vars, lock_vars, file_fbs>>
    /\ IF ~mem
       THEN /\ ioctl' = Ioctl("property_create", 0, [how |-> "nomem", id |-> 0],
                              NULL, <<>>)
            /\ last' = IoctlDone("property_create", NULL)
            /\ UNCHANGED <<crtc_idr, ents, released>>
       ELSE /\ Free # {}
            /\ crtc_idr' = IdrAdd(crtc_idr, id)
            /\ ents' = ents \cup {Ent("property", n, id)}
            /\ released' = released \ {id}
            /\ ioctl' = Ioctl("property_create", 0, [how |-> "ok", id |-> id],
                              Addr(Ent("property", n, id)), <<>>)
            /\ last' = IoctlDone("property_create", 1)

\* drm_property_destroy of the property at address n, called by the driver.
PropertyDestroy(n) ==
    LET e == CHOOSE p \in Listed(ents, "property") : p.n = n
        idr1 == drm_idr_put(crtc_idr, e.id)
    IN
    /\ CanIoctl
    /\ \E p \in Listed(ents, "property") : p.n = n
    /\ ncalls' = ncalls + 1
    /\ calls' = <<>>
    /\ crtc_idr' = idr1
    /\ ents' = ents \ {e}
    /\ released' = Released(released, crtc_idr, idr1)
    /\ ioctl' = Ioctl("property_destroy", 0, [id |-> e.id], 0, <<>>)
    /\ last' = IoctlDone("property_destroy", 0)
    /\ UNCHANGED <<output_crtc, crtc, has_base, probe_vars, list_vars, prop_vars, lock_vars, file_fbs>>

\* The arguments of a drm_mode_setcrtc request: crtc_id, mode_valid, the
\* timing of the user mode, fb_id (-1: keep the CRTC's framebuffer) and the
\* identifiers in set_outputs_ptr.
SetcrtcReq(crtc_id, mode_valid, hdisplay, fb_id, out_ids) ==
    [crtc_id |-> crtc_id, mode_valid |-> mode_valid, hdisplay |-> hdisplay,
     fb_id |-> fb_id, out_ids |-> out_ids]

\* drm_mode_setcrtc.  alias: see Resolves.
Setcrtc(rq, alias, okOut, okCrtc) ==
    LET ce   == idr_find(crtc_idr, ents, rq.crtc_id)
        fe   == idr_find(crtc_idr, ents, rq.fb_id)
        fb   == IF ~rq.mode_valid THEN NULL
                ELSE IF rq.fb_id = -1 THEN crtc[ce.n].fb
                ELSE Addr(fe)
        id   == drm_idr_get(crtc_idr)
        idr1 == IF rq.mode_valid THEN IdrAdd(crtc_idr, id) ELSE crtc_idr
        mode == IF rq.mode_valid
                THEN [mode_id |-> id, hdisplay |-> rq.hdisplay]
                ELSE NoMode
        Out(i) == idr_find(idr1, ents, i)
        outs == {Out(i).n : i \in rq.out_ids}
        args == [rq |-> rq, alias |-> alias]
        req  == Request("setcrtc", NULL, mode, 0, 0, {}, NULL)
        Fail(idr) ==
            /\ crtc_idr' = idr
            /\ released' = released \ idr
            /\ calls' = <<>>
            /\ last' = Done(req, -EINVAL, FALSE, FALSE)
            /\ ioctl' = Ioctl("setcrtc", 0, args, -EINVAL, <<>>)
            /\ UNCHANGED <<output_crtc, crtc, has_base>>
        \* the handler goes on with an object that is not of the type it
        \* takes it for
        Wild(idr) ==
            /\ crtc_idr' = idr
            /\ released' = released \ idr
            /\ calls' = <<>>
            /\ last' = Oops(req, FALSE, FALSE)
            /\ ioctl' = Ioctl("setcrtc", 0, args, 0, <<>>)
            /\ UNCHANGED <<output_crtc, crtc, has_base>>
    IN
    /\ CanIoctl
    /\ ncalls' = ncalls + 1
    /\ UNCHANGED <<probe_vars, list_vars, prop_vars, lock_vars, ents, file_fbs>>
    /\ IF ~Resolves(ce, "crtc", alias) THEN Fail(crtc_idr)
       ELSE IF ce.kind # "crtc" THEN Wild(crtc_idr)
       ELSE IF rq.mode_valid /\ rq.fb_id # -1 /\ ~Resolves(fe, "fb", alias)
       THEN Fail(crtc_idr)
       ELSE IF rq.out_ids = {} /\ mode # NoMode THEN Fail(idr1)
       ELSE IF rq.out_ids # {} /\ mode = NoMode /\ fb = NULL THEN Fail(idr1)
       ELSE IF \E i \in rq.out_ids : ~Resolves(Out(i), "output", alias)
       THEN Fail(idr1)
       ELSE IF \E i \in rq.out_ids : Out(i).kind # "output" THEN Wild(idr1)
       ELSE /\ SetConfigFrom(idr1, ce.n, mode, 0, 0, outs, fb, okOut, okCrtc)
            /\ released' = released \ crtc_idr'
            /\ ioctl' = Ioctl("setcrtc", 0, args, last'.ret, <<>>)

\* drm_crtc_set_config called by an in-kernel caller (the fbdev layer) of a
\* device whose framebuffers come and go: set->fb is on fb_list or NULL.
SetConfigFb(c, mode, outs, fb, okOut, okCrtc) ==
    /\ CanIoctl
    /\ fb = NULL \/ \E e \in Listed(ents, "fb") : e.n = fb
    /\ ncalls' = ncalls + 1
    /\ SetConfigFrom(crtc_idr, c, mode, 0, 0, outs, fb, okOut, okCrtc)
    /\ released' = released \ crtc_idr'
    /\ ioctl' = Ioctl("set_config", 0, [id |-> 0], 0, <<>>)
    /\ UNCHANGED <<probe_vars, list_vars, prop_vars, lock_vars, ents, file_fbs>>

\* ------------------------------------------------------ the mode lists
\* mode->status values.
MODE_OK         == "ok"
MODE_UNVERIFIED == "unverified"
MODE_BAD        == "bad"
MODE_VIRTUAL_X  == "virtual_x"
MODE_VIRTUAL_Y  == "virtual_y"

\* std_mode[0]: DRM_MODE("640x480", DRM_MODE_TYPE_DEFAULT, 25200, 640, 656,
\* 752, 800, 0, 480, 490, 492, 525, 0, ...).
std_mode ==
    [hdisplay |-> 640, vdisplay |-> 480, clock |-> 25200, htotal |-> 800,
     vtotal |-> 525, type |-> {"DEFAULT"}]

\* The modes a driver's get_modes may report or user space may attach: two
\* timings, the wider one with the higher refresh rate.
DriverModes ==
    {[hdisplay |-> 2, vdisplay |-> 2, clock |-> 3, htotal |-> 10, vtotal |-> 5,
      type |-> t] : t \in {{"DRIVER"}, {"DRIVER", "PREFERRED"}}}
    \cup {[hdisplay |-> 1, vdisplay |-> 1, clock |-> 1, htotal |-> 5,
           vtotal |-> 4, type |-> {"DRIVER"}]}

\* drm_mode_create followed by filling in the timing: kzalloc leaves status 0
\* (MODE_OK) and vrefresh 0; the identifier is drm_idr_get's.
NewMode(idr, t) ==
    [mode_id |-> drm_idr_get(idr), hdisplay |-> t.hdisplay,
     vdisplay |-> t.vdisplay, clock |-> t.clock, htotal |-> t.htotal,
     vtotal |-> t.vtotal, type |-> t.type, status |-> MODE_OK, vrefresh |-> 0]

\* drm_mode_vrefresh (drm_modes.c): the refresh rate from the timing.
drm_mode_vrefresh(m) == (m.clock * 1000) \div (m.htotal * m.vtotal)

\* The identifiers of the modes on a list.
ModeIds(l) == {l[k].mode_id : k \in DOMAIN l}

\* The registry after drm_mode_destroy of every mode of l.
DestroyModes(idr, l) == idr \ ModeIds(l)

\* output->funcs->get_modes reporting the sequence ans: one drm_mode_create
\* and one drm_mode_probed_add (list_add: at the head) per mode; returns the
\* number of modes.
RECURSIVE get_modes(_, _, _)
get_modes(idr, probed, ans) ==
    IF ans = <<>> THEN [idr |-> idr, probed |-> probed, ret |-> 0]
    ELSE LET m == NewMode(idr, Head(ans))
             r == get_modes(IdrAdd(idr, m.mode_id), <<m>> \o probed, Tail(ans))
         IN [r EXCEPT !.ret = @ + 1]

\* drm_mode_output_list_update (drm_modes.c): every probed mode equal in
\* timing to a mode of output->modes marks that mode ok and is destroyed;
\* every other probed mode moves to the tail of output->modes.
RECURSIVE drm_mode_output_list_update(_, _, _)
drm_mode_output_list_update(modes, probed, idr) ==
    IF probed = <<>> THEN [modes |-> modes, idr |-> idr]
    ELSE LET pm == Head(probed)
             K  == {k \in DOMAIN modes : drm_mode_equal(modes[k], pm)}
         IN IF K # {}
            THEN drm_mode_output_list_update(
                     [modes EXCEPT ![SetMin(K)].status = MODE_OK],
                     Tail(probed), drm_idr_put(idr, pm.mode_id))
            ELSE drm_mode_output_list_update(Append(modes, pm), Tail(probed), idr)

\* drm_mode_validate_size (drm_modes.c): a mode wider or taller than a
\* positive bound gets a rejecting status.
drm_mode_validate_size(modes, maxX, maxY) ==
    [k \in DOMAIN modes |->
        IF maxX > 0 /\ modes[k].hdisplay > maxX
        THEN [modes[k] EXCEPT !.status = MODE_VIRTUAL_X]
        ELSE IF maxY > 0 /\ modes[k].vdisplay > maxY
        THEN [modes[k] EXCEPT !.status = MODE_VIRTUAL_Y]
        ELSE modes[k]]

\* The positions of the modes the mode_valid loop passes to the driver.
ToValidate(modes) == {k \in DOMAIN modes : modes[k].status = MODE_OK}

\* The mode_valid loop: the driver accepts the modes whose width is in valid.
ModeValidLoop(modes, valid) ==
    [k \in DOMAIN modes |->
        IF k \in ToValidate(modes) /\ modes[k].hdisplay \notin valid
        THEN [modes[k] EXCEPT !.status = MODE_BAD]
        ELSE modes[k]]

\* The mode_valid calls of that loop, in list order.
ModeValidCalls(o, modes, valid) ==
    LET Asked(k) == k \in ToValidate(modes)
        ks == SelectSeq([k \in DOMAIN modes |-> k], Asked)
    IN [i \in DOMAIN ks |->
           Call("mode_valid", "output", o, <<modes[ks[i]].mode_id>>,
                modes[ks[i]].hdisplay \in valid)]

\* drm_mode_prune_invalid (drm_modes.c): the modes whose status is not ok
\* leave the list and are destroyed.
drm_mode_prune_invalid(modes, idr) ==
    LET Ok(m)  == m.status = MODE_OK
        Bad(m) == m.status # MODE_OK
    IN [modes |-> SelectSeq(modes, Ok),
        idr |-> DestroyModes(idr, SelectSeq(modes, Bad))]

\* The order of drm_mode_sort (drm_modes.c): wider first, then taller, then
\* the higher refresh rate, then the preferred mode.
SortsBefore(a, b) ==
    \/ a.hdisplay > b.hdisplay
    \/ /\ a.hdisplay = b.hdisplay
       /\ \/ a.vdisplay > b.vdisplay
          \/ /\ a.vdisplay = b.vdisplay
             /\ \/ a.vrefresh > b.vrefresh
                \/ /\ a.vrefresh = b.vrefresh
                   /\ "PREFERRED" \in a.type
                   /\ "PREFERRED" \notin b.type

\* m put into the sorted list l behind every mode that does not sort after it.
RECURSIVE SortInsert(_, _)
SortInsert(l, m) ==
    IF l = <<>> THEN <<m>>
    ELSE IF SortsBefore(m, Head(l)) THEN <<m>> \o l
    ELSE <<Head(l)>> \o SortInsert(Tail(l), m)

\* drm_mode_sort: a stable sort of the list.
RECURSIVE drm_mode_sort(_)
drm_mode_sort(l) ==
    IF l = <<>> THEN <<>>
    ELSE SortInsert(drm_mode_sort(SubSeq(l, 1, Len(l) - 1)), l[Len(l)])

\* Faulty variant of ProbeSingle's first loop: the statuses are left alone.
MarkUnverified_Keep(modes) == modes

\* list_for_each_entry_safe(mode, t, &output->modes, head)
\*     mode->status = MODE_UNVERIFIED;
MarkUnverified(modes) ==
    [k \in DOMAIN modes |-> [modes[k] EXCEPT !.status = MODE_UNVERIFIED]]

\* Faulty variant of StdFallback: the list is left empty.
StdFallback_None(modes, probed, idr) ==
    [modes |-> modes, probed |-> probed, idr |-> idr]

\* if (list_empty(&output->modes)): the duplicate of std_mode[0] goes on
\* probed_modes and the whole of probed_modes moves behind output->modes.
StdFallback(modes, probed, idr) ==
    IF modes # <<>> THEN [modes |-> modes, probed |-> probed, idr |-> idr]
    ELSE LET stdmode == NewMode(idr, std_mode)
         IN [modes |-> modes \o (<<stdmode>> \o probed), probed |-> <<>>,
             idr |-> IdrAdd(idr, stdmode.mode_id)]

\* drm_crtc_probe_single_output_modes(output o, maxX, maxY) on the lists
\* modes and probed, with the driver answering status to detect, ans to
\* get_modes and valid to mode_valid.
ProbeLists(o, modes, probed, idr, maxX, maxY, status, ans, valid) ==
    LET m0  == MarkUnverified(modes)
        det == <<Call("detect", "output", o, <<>>, status)>>
        g   == get_modes(idr, probed, ans)
        lu  == drm_mode_output_list_update(m0, g.probed, g.idr)
        u   == IF g.ret # 0
               THEN [modes |-> lu.modes, idr |-> lu.idr, probed |-> <<>>]
               ELSE [modes |-> m0, idr |-> g.idr, probed |-> g.probed]
        m1  == IF maxX # 0 /\ maxY # 0
               THEN drm_mode_validate_size(u.modes, maxX, maxY)
               ELSE u.modes
        m2  == ModeValidLoop(m1, valid)
        p   == drm_mode_prune_invalid(m2, u.idr)
        f   == StdFallback(p.modes, u.probed, p.idr)
        s   == drm_mode_sort(f.modes)
    IN IF status = "disconnected"
       THEN [status |-> status, modes |-> m0, probed |-> probed, idr |-> idr,
             pruned |-> m0, calls |-> det]
       ELSE [status |-> status,
             modes |-> [k \in DOMAIN s |->
                          [s[k] EXCEPT !.vrefresh = drm_mode_vrefresh(s[k])]],
             probed |-> f.probed, idr |-> f.idr, pruned |-> p.modes,
             calls |-> det \o <<Call("get_modes", "output", o, <<>>, g.ret)>>
                       \o ModeValidCalls(o, m1, valid)]

\* The lists and statuses a call found, kept with its record in `last`.
ListsPre ==
    [modes |-> out_modes, probed |-> probed_modes, user |-> user_modes,
     status |-> out_status]

\* What a call on the mode lists leaves in `last`; pruned is output->modes
\* as drm_mode_prune_invalid left it.
ListDone(op, o, ret, pruned) ==
    [req |-> Request(op, NULL, NoMode, 0, 0, {o}, NULL), ret |-> ret,
     changed |-> FALSE, flip_or_move |-> FALSE, oops |-> FALSE, pre |-> Pre,
     lists |-> ListsPre, pruned |-> pruned]

\* drm_crtc_probe_single_output_modes(output o, maxX, maxY).
ProbeSingle(o, maxX, maxY, status, ans, valid) ==
    LET r == ProbeLists(o, out_modes[o], probed_modes[o], crtc_idr, maxX, maxY,
                        status, ans, valid)
    IN
    /\ CanIoctl
    /\ ncalls' = ncalls + 1
    /\ out_status' = [out_status EXCEPT ![o] = r.status]
    /\ out_modes' = [out_modes EXCEPT ![o] = r.modes]
    /\ probed_modes' = [probed_modes EXCEPT ![o] = r.probed]
    /\ crtc_idr' = r.idr
    /\ calls' = r.calls
    /\ last' = ListDone("probe", o, 0, r.pruned)
    /\ UNCHANGED <<output_crtc, crtc, has_base, possible_crtcs, possible_clones,
                   hotplug_counter, user_modes, store_vars, prop_vars, lock_vars>>

\* drm_mode_attachmode_ioctl(output_id, umode): the output is looked up, a
\* mode is created from umode and linked at the tail of output->user_modes.
AttachMode(id, t, mem) ==
    LET o  == id - NumCrtcs
        m  == NewMode(crtc_idr, t)
        ok == id \in crtc_idr /\ o \in Outputs
    IN
    /\ CanIoctl
    /\ ncalls' = ncalls + 1
    /\ calls' = <<>>
    /\ IF ~ok
       THEN /\ last' = ListDone("attachmode", NULL, -EINVAL, <<>>)
            /\ UNCHANGED <<user_modes, crtc_idr>>
       ELSE IF ~mem
       THEN /\ last' = ListDone("attachmode", o, -ENOMEM, <<>>)
            /\ UNCHANGED <<user_modes, crtc_idr>>
       ELSE /\ last' = ListDone("attachmode", o, 0, <<>>)
            /\ user_modes' = [user_modes EXCEPT ![o] = Append(@, m)]
            /\ crtc_idr' = IdrAdd(crtc_idr, m.mode_id)
    /\ UNCHANGED <<output_crtc, crtc, has_base, probe_vars, probed_modes,
                   store_vars, prop_vars, lock_vars>>

\* drm_mode_detachmode_ioctl(output_id, umode): the first user mode equal in
\* timing to umode is unlinked and destroyed; -EINVAL when there is none.
DetachMode(id, t) ==
    LET o  == id - NumCrtcs
        ok == id \in crtc_idr /\ o \in Outputs
        K  == IF ok THEN {k \in DOMAIN user_modes[o] :
                             drm_mode_equal(user_modes[o][k], t)}
              ELSE {}
        k0 == SetMin(K)
        Keep(l) == [i \in 1..(Len(l) - 1) |-> IF i < k0 THEN l[i] ELSE l[i + 1]]
    IN
    /\ CanIoctl
    /\ ncalls' = ncalls + 1
    /\ calls' = <<>>
    /\ IF K = {}
       THEN /\ last' = ListDone("detachmode", IF ok THEN o ELSE NULL, -EINVAL, <<>>)
            /\ UNCHANGED <<user_modes, crtc_idr>>
       ELSE /\ last' = ListDone("detachmode", o, 0, <<>>)
            /\ user_modes' = [user_modes EXCEPT ![o] = Keep(@)]
            /\ crtc_idr' = drm_idr_put(crtc_idr, user_modes[o][k0].mode_id)
    /\ UNCHANGED <<output_crtc, crtc, has_base, probe_vars, probed_modes,
                   store_vars, prop_vars, lock_vars>>

\* ------------------------------------------------------ property system
\* The size of the name fields (strncpy bound; the last byte is the NUL).
DRM_PROP_NAME_LEN == 3

\* strncpy(dst, name, DRM_PROP_NAME_LEN); dst[DRM_PROP_NAME_LEN-1] = '\0':
\* the first DRM_PROP_NAME_LEN - 1 characters of name.
StoredName(name) ==
    SubSeq(name, 1, IF Len(name) < DRM_PROP_NAME_LEN THEN Len(name)
                    ELSE DRM_PROP_NAME_LEN - 1)

\* A property as drm_property_create leaves it: values[] zeroed by kzalloc,
\* enum_blob_list empty.
NewProperty(id, flags, num_values) ==
    [id |-> id, flags |-> flags, num_values |-> num_values,
     values |-> [i \in 1..num_values |-> 0], enums |-> <<>>]

\* The positions of the enum entries of p holding value.
EnumAt(p, value) == {k \in DOMAIN p.enums : p.enums[k].value = value}

\* Faulty variant of drm_property_add_enum: an entry is appended even when
\* the value is already on the list.
drm_property_add_enum_Append(p, index, value, name, mem) ==
    IF "ENUM" \notin p.flags THEN [ret |-> -EINVAL, p |-> p]
    ELSE IF ~mem THEN [ret |-> -ENOMEM, p |-> p]
    ELSE [ret |-> 0,
          p |-> [p EXCEPT !.enums = Append(@, [value |-> value,
                                               name |-> StoredName(name)]),
                          !.values[index + 1] = value]]

\* drm_property_add_enum(property p, index, value, name); mem is the success
\* of kzalloc. values[index] is values[index + 1] of the sequence.
drm_property_add_enum(p, index, value, name, mem) ==
    IF "ENUM" \notin p.flags THEN [ret |-> -EINVAL, p |-> p]
    ELSE IF EnumAt(p, value) # {}
    THEN [ret |-> 0,
          p |-> [p EXCEPT !.enums[SetMin(EnumAt(p, value))].name =
                              StoredName(name)]]
    ELSE IF ~mem THEN [ret |-> -ENOMEM, p |-> p]
    ELSE [ret |-> 0,
          p |-> [p EXCEPT !.enums = Append(@, [value |-> value,
                                               name |-> StoredName(name)]),
                          !.values[index + 1] = value]]

\* The slots of an output with property_ids[i] == id.
SlotsOf(sl, id) == {i \in DOMAIN sl.ids : sl.ids[i] = id}

\* Faulty variant of drm_output_attach_property: a full array has its last
\* slot overwritten.
drm_output_attach_property_Evict(sl, id, init_val) ==
    LET i == IF SlotsOf(sl, 0) = {} THEN DRM_OUTPUT_MAX_PROPERTY
             ELSE SetMin(SlotsOf(sl, 0))
    IN [ret |-> 0,
        sl |-> [ids |-> [sl.ids EXCEPT ![i] = id],
                values |-> [sl.values EXCEPT ![i] = init_val]]]

\* drm_output_attach_property(output, property, init_val) on the slot arrays
\* sl of the output; id is property->id.
drm_output_attach_property(sl, id, init_val) ==
    IF SlotsOf(sl, 0) = {} THEN [ret |-> -EINVAL, sl |-> sl]
    ELSE LET i == SetMin(SlotsOf(sl, 0))
         IN [ret |-> 0,
             sl |-> [ids |-> [sl.ids EXCEPT ![i] = id],
                     values |-> [sl.values EXCEPT ![i] = init_val]]]

\* drm_output_property_set_value(output, property, value).
drm_output_property_set_value(sl, id, value) ==
    IF SlotsOf(sl, id) = {} THEN [ret |-> -EINVAL, sl |-> sl]
    ELSE [ret |-> 0,
          sl |-> [sl EXCEPT !.values[SetMin(SlotsOf(sl, id))] = value]]

\* Faulty variant of ValueAllowed: the lower bound of a range is not tested.
ValueAllowed_NoLower(p, value) ==
    IF "RANGE" \in p.flags
    THEN ~(value > p.values[2])
    ELSE \E i \in 1..p.num_values : p.values[i] = value

\* The value test of drm_mode_output_property_set_ioctl: for a range
\* property neither value < values[0] nor value > values[1]; otherwise the
\* loop over values[0..num_values-1] finds the value.
ValueAllowed(p, value) ==
    IF "RANGE" \in p.flags
    THEN ~(value < p.values[1]) /\ ~(value > p.values[2])
    ELSE \E i \in 1..p.num_values : p.values[i] = value

\* The property with identifier id on the property list, as idr_find
\* followed by the test property->id != prop_id finds it.
PropertyById(ps, idr, id) ==
    IF id \in idr /\ \E n \in DOMAIN ps : ps[n].id = id
    THEN CHOOSE n \in DOMAIN ps : ps[n].id = id
    ELSE NULL

\* What the driver's output->funcs->set_property may be: absent, failing,
\* succeeding, or succeeding after drm_output_property_set_value.
SetPropertyCallbacks == {"absent", "fails", "ok", "stores"}

\* drm_mode_output_property_set_ioctl(output_id, prop_id, value) with the
\* driver callback cb: the return value, the callback log and the slots.
PropertySetFrom(ps, ops, idr, output_id, prop_id, value, cb) ==
    LET o    == output_id - NumCrtcs
        okO  == output_id \in idr /\ o \in Outputs
        n    == PropertyById(ps, idr, prop_id)
        sl   == ops[o]
        rej  == [ret |-> -EINVAL, calls |-> <<>>, out_props |-> ops]
        cret == IF cb = "fails" THEN -EINVAL ELSE 0
    IN IF ~okO THEN rej
       ELSE IF SlotsOf(sl, prop_id) = {} THEN rej
       ELSE IF n = NULL THEN rej
       ELSE IF "IMMUTABLE" \in ps[n].flags THEN rej
       ELSE IF ~ValueAllowed(ps[n], value) THEN rej
       ELSE IF cb = "absent" THEN rej
       ELSE [ret |-> cret,
             calls |-> <<Call("set_property", "output", o,
                              <<prop_id, value>>, cret)>>,
             out_props |->
                IF cb = "stores"
                THEN [ops EXCEPT ![o] =
                        drm_output_property_set_value(sl, prop_id, value).sl]
                ELSE ops]

\* The properties and slots a call found, kept with its record in `last`.
PropsPre == [props |-> props, out_props |-> out_props]

\* What a call on the property system leaves in `last`.
PropDone(op, args, ret) ==
    [req |-> Request(op, NULL, NoMode, 0, 0, {}, NULL), ret |-> ret,
     changed |-> FALSE, flip_or_move |-> FALSE, oops |-> FALSE, pre |-> Pre,
     props |-> PropsPre, args |-> args]

\* drm_property_add_enum(property n, index, value, name).
AddEnum(n, index, value, name, mem) ==
    LET r == drm_property_add_enum(props[n], index, value, name, mem)
    IN
    /\ CanIoctl
    /\ n \in DOMAIN props
    /\ index < props[n].num_values
    /\ ncalls' = ncalls + 1
    /\ calls' = <<>>
    /\ props' = [props EXCEPT ![n] = r.p]
    /\ last' = PropDone("add_enum", [n |-> n, index |-> index, value |-> value,
                                     name |-> name], r.ret)
    /\ UNCHANGED <<output_crtc, crtc, has_base, crtc_idr, probe_vars, store_vars,
                   list_vars, out_props, lock_vars>>

\* drm_output_attach_property(output o, property n, init_val).
Attach(o, n, init_val) ==
    LET r == drm_output_attach_property(out_props[o], props[n].id, init_val)
    IN
    /\ CanIoctl
    /\ n \in DOMAIN props
    /\ ncalls' = ncalls + 1
    /\ calls' = <<>>
    /\ out_props' = [out_props EXCEPT ![o] = r.sl]
    /\ last' = PropDone("attach", [o |-> o, n |-> n, id |-> props[n].id,
                                   value |-> init_val], r.ret)
    /\ UNCHANGED <<output_crtc, crtc, has_base, crtc_idr, probe_vars, store_vars,
                   list_vars, props, lock_vars>>

\* drm_mode_output_property_set_ioctl(output_id, prop_id, value).
PropertySet(output_id, prop_id, value, cb) ==
    LET r == PropertySetFrom(props, out_props, crtc_idr, output_id, prop_id,
                             value, cb)
    IN
    /\ CanIoctl
    /\ ncalls' = ncalls + 1
    /\ calls' = r.calls
    /\ out_props' = r.out_props
    /\ last' = PropDone("property_set",
                        [output_id |-> output_id, prop_id |-> prop_id,
                         value |-> value, cb |-> cb], r.ret)
    /\ UNCHANGED <<output_crtc, crtc, has_base, crtc_idr, probe_vars, store_vars,
                   list_vars, props, lock_vars>>

\* ------------------------------------------------- the mode_config mutex
\* Threads inside the ioctl layer.
NumThreads == 2
Threads == 1..NumThreads

\* The entry points that call mutex_lock(&dev->mode_config.mutex).
EntryPoints ==
    {"getresources", "getcrtc", "getoutput", "setcrtc", "cursor", "addfb",
     "rmfb", "getfb", "fb_release", "attachmode", "detachmode", "getproperty",
     "getblob", "property_set", "replacefb", "initial_config"}

\* drm_mode_cursor_ioctl (!req->flags) and drm_mode_addfb (size limits) test
\* their arguments and return -EINVAL before mutex_lock.
ChecksFirst == {"cursor", "addfb"}

\* drm_mode_getcrtc and drm_mode_getoutput report bindings.
Readers == {"getcrtc", "getoutput"}

\* A thread outside every entry point.
Idle ==
    [fn |-> "none", pc |-> "idle", args |-> <<>>, locks |-> 0, unlocks |-> 0,
     ret |-> 0, k |-> 0, save |-> <<>>, seen |-> <<>>]

\* The arguments of a call: whether the early argument test and the lookups
\* pass, and for setcrtc the CRTC, the outputs and the answer of
\* drm_crtc_set_mode (the requested mode differs from the current one).
CallArgs(fn) ==
    IF fn = "setcrtc"
    THEN {[wellformed |-> TRUE, valid |-> v, crtc |-> c, outs |-> os, ok |-> ok] :
            v \in BOOLEAN, c \in CRTCs, os \in {{}, {1}, Outputs},
            ok \in BOOLEAN}
    ELSE IF fn \in Readers
    THEN {[wellformed |-> TRUE, valid |-> v, crtc |-> 1, outs |-> {1}, ok |-> TRUE] :
            v \in BOOLEAN}
    ELSE {[wellformed |-> w, valid |-> v, crtc |-> 1, outs |-> {}, ok |-> TRUE] :
            w \in (IF fn \in ChecksFirst THEN BOOLEAN ELSE {TRUE}),
            v \in BOOLEAN}

\* Faulty variant of MayAcquire: mutex_lock does not wait for the holder.
MayAcquire_Always(m) == TRUE

\* mutex_lock returns only when nobody holds the mutex.
MayAcquire(m) == m = NULL

\* A thread enters an entry point.
Enter(t, fn, args) ==
    /\ thread[t].pc = "idle"
    /\ ncalls < MaxIoctls
    /\ ncalls' = ncalls + 1
    /\ thread' = [thread EXCEPT ![t] = [Idle EXCEPT !.fn = fn, !.pc = "entry",
                                                    !.args = args]]
    /\ UNCHANGED <<output_crtc, crtc, has_base, crtc_idr, calls, last, probe_vars,
                   store_vars, list_vars, prop_vars, mutex>>

\* The return -EINVAL in front of mutex_lock in drm_mode_cursor_ioctl and
\* drm_mode_addfb.
EarlyReturn(t) ==
    /\ thread[t].pc = "entry"
    /\ thread[t].fn \in ChecksFirst
    /\ ~thread[t].args.wellformed
    /\ thread' = [thread EXCEPT ![t].pc = "returned", ![t].ret = -EINVAL]
    /\ UNCHANGED <<output_crtc, crtc, has_base, crtc_idr, calls, last, ncalls,
                   probe_vars, store_vars, list_vars, prop_vars, mutex>>

\* mutex_lock(&dev->mode_config.mutex).
Lock(t) ==
    /\ thread[t].pc = "entry"
    /\ thread[t].args.wellformed
    /\ MayAcquire(mutex)
    /\ mutex' = t
    /\ thread' = [thread EXCEPT ![t].pc = "locked", ![t].locks = @ + 1]
    /\ UNCHANGED <<output_crtc, crtc, has_base, crtc_idr, calls, last, ncalls,
                   probe_vars, store_vars, list_vars, prop_vars>>

\* What drm_mode_getcrtc (the outputs with output->crtc == crtc) and
\* drm_mode_getoutput (output->crtc) copy out: the bindings.
Observed(oc) == oc

\* The body of an entry point other than setcrtc between mutex_lock and the
\* out label: a failed lookup jumps to out; getcrtc and getoutput read the
\* bindings; drm_mode_replacefb reads crtc->fb->id of every CRTC.
Body(t) ==
    LET th == thread[t]
    IN
    /\ th.pc = "locked"
    /\ th.fn # "setcrtc"
    /\ thread' = [thread EXCEPT ![t] =
          IF ~th.args.valid THEN [th EXCEPT !.pc = "out", !.ret = -EINVAL]
          ELSE IF th.fn \in Readers
          THEN [th EXCEPT !.pc = "out", !.seen = <<Observed(output_crtc)>>]
          ELSE IF th.fn = "replacefb" /\ \E c \in CRTCs : crtc[c].fb = NULL
          THEN [th EXCEPT !.pc = "oops"]
          ELSE [th EXCEPT !.pc = "out"]]
    /\ UNCHANGED <<output_crtc, crtc, has_base, crtc_idr, calls, last, ncalls,
                   probe_vars, store_vars, list_vars, prop_vars, mutex>>

\* drm_mode_setcrtc up to the call of drm_crtc_set_config: a failed lookup
\* jumps to out; otherwise set_config starts with save_crtcs empty.
SetcrtcStart(t) ==
    LET th == thread[t]
    IN
    /\ th.pc = "locked"
    /\ th.fn = "setcrtc"
    /\ thread' = [thread EXCEPT ![t] =
          IF ~th.args.valid THEN [th EXCEPT !.pc = "out", !.ret = -EINVAL]
          ELSE [th EXCEPT !.pc = "writing", !.k = 0, !.save = <<>>]]
    /\ UNCHANGED <<output_crtc, crtc, has_base, crtc_idr, calls, last, ncalls,
                   probe_vars, store_vars, list_vars, prop_vars, mutex>>

\* new_crtc for output o in the first loop of drm_crtc_set_config.
NewCrtcFor(oc, o, c, outs) ==
    IF o \in outs THEN c ELSE IF oc[o] = c THEN NULL ELSE oc[o]

\* One round of the first loop of drm_crtc_set_config: save_crtcs[count++] =
\* output->crtc; output->crtc = new_crtc.
BindNext(t) ==
    LET th == thread[t]
        o  == th.k + 1
    IN
    /\ th.pc = "writing"
    /\ th.k < NumOutputs
    /\ output_crtc' = [output_crtc EXCEPT ![o] =
                          NewCrtcFor(output_crtc, o, th.args.crtc, th.args.outs)]
    /\ thread' = [thread EXCEPT ![t].k = o,
                                ![t].save = Append(@, output_crtc[o])]
    /\ UNCHANGED <<crtc, has_base, crtc_idr, calls, last, ncalls,
                   probe_vars, store_vars, list_vars, prop_vars, mutex>>

\* After the loop: set->crtc->fb = set->fb; with a mode, drm_crtc_set_mode
\* either succeeds or sends set_config into the restore loop.
ModeSet(t) ==
    LET th == thread[t]
    IN
    /\ th.pc = "writing"
    /\ th.k = NumOutputs
    /\ crtc' = [crtc EXCEPT ![th.args.crtc].fb =
                   IF th.args.outs = {} THEN NULL ELSE 1]
    /\ thread' = [thread EXCEPT ![t] =
          IF th.args.outs # {} /\ ~th.args.ok
          THEN [th EXCEPT !.pc = "restoring", !.k = 0, !.ret = -EINVAL]
          ELSE [th EXCEPT !.pc = "out", !.ret = 0]]
    /\ UNCHANGED <<output_crtc, has_base, crtc_idr, calls, last, ncalls,
                   probe_vars, store_vars, list_vars, prop_vars, mutex>>

\* One round of the restore loop: output->crtc = save_crtcs[count++].
RestoreNext(t) ==
    LET th == thread[t]
        o  == th.k + 1
    IN
    /\ th.pc = "restoring"
    /\ output_crtc' = [output_crtc EXCEPT ![o] = th.save[o]]
    /\ thread' = [thread EXCEPT ![t].k = o,
                                ![t].pc = IF o = NumOutputs THEN "out" ELSE @]
    /\ UNCHANGED <<crtc, has_base, crtc_idr, calls, last, ncalls,
                   probe_vars, store_vars, list_vars, prop_vars, mutex>>

\* out: mutex_unlock(&dev->mode_config.mutex); return ret;
Unlock(t) ==
    /\ thread[t].pc = "out"
    /\ mutex' = IF mutex = t THEN NULL ELSE mutex
    /\ thread' = [thread EXCEPT ![t].pc = "returned", ![t].unlocks = @ + 1]
    /\ UNCHANGED <<output_crtc, crtc, has_base, crtc_idr, calls, last, ncalls,
                   probe_vars, store_vars, list_vars, prop_vars>>

\* The thread is back in user space.
Leave(t) ==
    /\ thread[t].pc = "returned"
    /\ thread' = [thread EXCEPT ![t] = Idle]
    /\ UNCHANGED <<output_crtc, crtc, has_base, crtc_idr, calls, last, ncalls,
                   probe_vars, store_vars, list_vars, prop_vars, mutex>>

\* ---------------------------------------- creating and destroying entities
\* The functions a driver calls directly.
KernelFns == {"output_create", "output_destroy", "crtc_destroy", "config_cleanup"}

\* The objects on crtc_list and output_list.
LiveCrtcs(es)   == {e.n : e \in Listed(es, "crtc")}
LiveOutputs(es) == {e.n : e \in Listed(es, "output")}

\* The identifiers of the standard properties drm_mode_config_init created.
edid_property == NumCrtcs + NumOutputs + 1
dpms_property == NumCrtcs + NumOutputs + 2

\* A driver thread calls fn on obj.  held: the caller took the mode_config
\* mutex first, as the LOCKING paragraph of each of these functions asks.
KernelCall(t, fn, obj, held) ==
    /\ \A u \in Threads : thread[u].pc = "idle"
    /\ ncalls < MaxIoctls
    /\ held => MayAcquire(mutex)
    /\ CASE fn = "output_create"  -> /\ obj \in Outputs \ LiveOutputs(ents)
                                     /\ \A o \in Outputs \ LiveOutputs(ents) : obj <= o
         [] fn = "output_destroy" -> obj \in LiveOutputs(ents)
         [] fn = "crtc_destroy"   -> obj \in LiveCrtcs(ents)
         [] OTHER                 -> obj = NULL
    /\ ncalls' = ncalls + 1
    /\ mutex' = IF held THEN t ELSE mutex
    /\ thread' = [thread EXCEPT ![t] =
          [Idle EXCEPT !.fn = fn, !.k = obj,
                       !.pc = IF fn = "output_destroy" THEN "destroy" ELSE "entry",
                       !.args = [held |-> held, obj |-> obj, pre |-> StorePre]]]
    /\ UNCHANGED <<output_crtc, crtc, has_base, crtc_idr, calls, last, probe_vars,
                   store_vars, list_vars, prop_vars>>

\* drm_output_create up to mutex_lock: kzalloc, drm_idr_get (the result is
\* stored unchecked), the three empty mode lists.
OutputAlloc(t) ==
    LET th == thread[t]
        id == drm_idr_get(crtc_idr)
    IN
    /\ th.pc = "entry"
    /\ th.fn = "output_create"
    /\ crtc_idr' = IdrAdd(crtc_idr, id)
    /\ output_crtc' = [output_crtc EXCEPT ![th.k] = NULL]
    /\ out_modes' = [out_modes EXCEPT ![th.k] = <<>>]
    /\ probed_modes' = [probed_modes EXCEPT ![th.k] = <<>>]
    /\ user_modes' = [user_modes EXCEPT ![th.k] = <<>>]
    /\ out_props' = [out_props EXCEPT ![th.k] = NoSlots]
    /\ thread' = [thread EXCEPT ![t].pc = "lock", ![t].ret = id]
    /\ UNCHANGED <<crtc, has_base, calls, last, ncalls, out_status,
                   possible_crtcs, possible_clones, hotplug_counter,
                   store_vars, props, mutex>>

\* mutex_lock(&dev->mode_config.mutex) inside drm_output_create and
\* drm_output_destroy: it waits while anybody, the caller included, holds
\* the mutex.
MutexLock(t) ==
    /\ thread[t].pc = "lock"
    /\ MayAcquire(mutex)
    /\ mutex' = t
    /\ thread' = [thread EXCEPT ![t].pc = "locked", ![t].locks = @ + 1]
    /\ UNCHANGED <<output_crtc, crtc, has_base, crtc_idr, calls, last, ncalls,
                   probe_vars, store_vars, list_vars, prop_vars>>

\* drm_output_create from list_add_tail to the return: the output joins
\* output_list, the EDID and DPMS properties are attached, mutex_unlock.
OutputLink(t) ==
    LET th == thread[t]
        s1 == drm_output_attach_property(out_props[th.k], edid_property, 0).sl
        s2 == drm_output_attach_property(s1, dpms_property, 0).sl
    IN
    /\ th.pc = "locked"
    /\ th.fn = "output_create"
    /\ ents' = ents \cup {Ent("output", th.k, th.ret)}
    /\ out_props' = [out_props EXCEPT ![th.k] = s2]
    /\ mutex' = NULL
    /\ thread' = [thread EXCEPT ![t].pc = "returned", ![t].unlocks = @ + 1]
    /\ UNCHANGED <<output_crtc, crtc, has_base, crtc_idr, calls, last, ncalls,
                   probe_vars, list_vars, props, file_fbs, released, ioctl>>

\* drm_mode_remove of every mode of list l: list_del and kfree; the
\* registry is not touched.
drm_mode_remove(idr, l) == [idr |-> idr, list |-> <<>>]

\* drm_output_destroy of output th.k up to mutex_lock: the cleanup callback,
\* then drm_mode_remove over probed_modes, modes and user_modes.  seen keeps
\* the identifiers the three lists held.
OutputRemoveModes(t) ==
    LET th == thread[t]
        o  == th.k
        r1 == drm_mode_remove(crtc_idr, probed_modes[o])
        r2 == drm_mode_remove(r1.idr, out_modes[o])
        r3 == drm_mode_remove(r2.idr, user_modes[o])
    IN
    /\ th.pc = "destroy"
    /\ calls' = Append(calls, Call("cleanup", "output", o, <<>>, TRUE))
    /\ probed_modes' = [probed_modes EXCEPT ![o] = r1.list]
    /\ out_modes' = [out_modes EXCEPT ![o] = r2.list]
    /\ user_modes' = [user_modes EXCEPT ![o] = r3.list]
    /\ crtc_idr' = r3.idr
    /\ thread' = [thread EXCEPT ![t].pc = "lock",
          ![t].seen = <<ModeIds(probed_modes[o]) \cup ModeIds(out_modes[o])
                        \cup ModeIds(user_modes[o])>>]
    /\ UNCHANGED <<output_crtc, crtc, has_base, last, ncalls, out_status,
                   possible_crtcs, possible_clones, hotplug_counter,
                   store_vars, prop_vars, mutex>>

\* drm_output_destroy from drm_idr_put to kfree: the output leaves the
\* registry and output_list, mutex_unlock.  drm_mode_config_cleanup goes on
\* with its loop.
OutputUnlink(t) ==
    LET th == thread[t]
        e  == CHOOSE x \in Listed(ents, "output") : x.n = th.k
    IN
    /\ th.pc = "locked"
    /\ th.fn \in {"output_destroy", "config_cleanup"}
    /\ crtc_idr' = drm_idr_put(crtc_idr, e.id)
    /\ ents' = ents \ {e}
    /\ mutex' = NULL
    /\ thread' = [thread EXCEPT ![t].unlocks = @ + 1,
          ![t].pc = IF th.fn = "config_cleanup" THEN "entry" ELSE "returned"]
    /\ UNCHANGED <<output_crtc, crtc, has_base, calls, last, ncalls,
                   probe_vars, list_vars, prop_vars, file_fbs, released, ioctl>>

\* drm_crtc_destroy: the cleanup callback, drm_idr_put, list_del, kfree.
\* No output is looked at.
drm_crtc_destroy(oc, idr, es, c) ==
    LET e == CHOOSE x \in Listed(es, "crtc") : x.n = c
    IN [output_crtc |-> oc, idr |-> drm_idr_put(idr, e.id), ents |-> es \ {e}]

CrtcDestroy(t) ==
    LET th == thread[t]
        r  == drm_crtc_destroy(output_crtc, crtc_idr, ents, th.k)
    IN
    /\ th.pc = "entry"
    /\ th.fn = "crtc_destroy"
    /\ calls' = Append(calls, Call("cleanup", "crtc", th.k, <<>>, TRUE))
    /\ output_crtc' = r.output_crtc
    /\ crtc_idr' = r.idr
    /\ ents' = r.ents
    /\ thread' = [thread EXCEPT ![t].pc = "returned"]
    /\ UNCHANGED <<crtc, has_base, last, ncalls, probe_vars, list_vars,
                   prop_vars, file_fbs, released, ioctl, mutex>>

\* drm_mode_config_cleanup at the head of its first loop: the next output of
\* output_list goes to drm_output_destroy; with none left the properties,
\* the framebuffers and then the CRTCs are destroyed, each with drm_idr_put
\* and list_del.
CleanupNext(t) ==
    LET th   == thread[t]
        outs == LiveOutputs(ents)
        rest == {e \in ents : e.kind \in {"property", "fb", "crtc"}}
    IN
    /\ th.pc = "entry"
    /\ th.fn = "config_cleanup"
    /\ IF outs # {}
       THEN /\ thread' = [thread EXCEPT ![t].pc = "destroy", ![t].k = SetMin(outs)]
            /\ UNCHANGED <<crtc, crtc_idr, ents>>
       ELSE /\ thread' = [thread EXCEPT ![t].pc = "returned"]
            /\ crtc' = [c \in CRTCs |-> [crtc[c] EXCEPT !.fb = NULL]]
            /\ crtc_idr' = crtc_idr \ {e.id : e \in rest}
            /\ ents' = ents \ rest
    /\ UNCHANGED <<output_crtc, has_base, calls, last, ncalls, probe_vars,
                   list_vars, prop_vars, file_fbs, released, ioctl, mutex>>

\* The function returns to the driver, which releases the mutex if it took
\* it.
KernelReturn(t) ==
    /\ thread[t].pc = "returned"
    /\ thread[t].fn \in KernelFns
    /\ mutex' = IF thread[t].args.held THEN NULL ELSE mutex
    /\ thread' = [thread EXCEPT ![t] = Idle]
    /\ calls' = <<>>
    /\ UNCHANGED <<output_crtc, crtc, has_base, crtc_idr, last, ncalls,
                   probe_vars, store_vars, list_vars, prop_vars>>

\* ------------------------------------------------------- the EDID property
\* A blob on property_blob_list is listed as Ent("blob", o, id), o being the
\* output whose edid_blob_ptr points at it.  output->edid_blob_ptr:
EdidBlob(es, o) ==
    IF \E b \in Listed(es, "blob") : b.n = o
    THEN CHOOSE b \in Listed(es, "blob") : b.n = o
    ELSE NoEnt

\* drm_property_create_blob for output o: NULL for no length or no data and
\* when kzalloc fails; otherwise the identifier is stored unchecked and the
\* blob joins property_blob_list.
drm_property_create_blob(idr, es, o, length, data, mem) ==
    IF length = 0 \/ data = NULL \/ ~mem
    THEN [blob |-> NoEnt, idr |-> idr, ents |-> es]
    ELSE LET b == Ent("blob", o, drm_idr_get(idr))
         IN [blob |-> b, idr |-> IdrAdd(idr, b.id), ents |-> es \cup {b}]

\* drm_property_destroy_blob: drm_idr_put, list_del, kfree.
drm_property_destroy_blob(idr, es, b) ==
    [idr |-> drm_idr_put(idr, b.id), ents |-> es \ {b}]

\* The value of the EDID property in the slot arrays sl (0: not attached).
EdidValue(sl) ==
    IF SlotsOf(sl, edid_property) = {} THEN 0
    ELSE sl.values[SetMin(SlotsOf(sl, edid_property))]

\* drm_mode_output_update_edid_property(output, edid): the old blob is
\* destroyed, a blob of 128 bytes is created and its id is stored as the
\* value of the EDID property.  The result of drm_property_create_blob is
\* dereferenced untested: with NULL the kernel oopses.
UpdateEdid(o, edid, mem) ==
    LET old == EdidBlob(ents, o)
        d   == IF old # NoEnt THEN drm_property_destroy_blob(crtc_idr, ents, old)
               ELSE [idr |-> crtc_idr, ents |-> ents]
        c   == drm_property_create_blob(d.idr, d.ents, o, 128, edid, mem)
        sv  == drm_output_property_set_value(out_props[o], edid_property,
                                             c.blob.id)
        req == Request("update_edid", NULL, NoMode, 0, 0, {o}, NULL)
    IN
    /\ CanIoctl
    /\ o \in LiveOutputs(ents)
    /\ ncalls' = ncalls + 1
    /\ calls' = <<>>
    /\ crtc_idr' = c.idr
    /\ ents' = c.ents
    /\ IF c.blob = NoEnt
       THEN /\ last' = Oops(req, FALSE, FALSE)
            /\ ioctl' = Ioctl("update_edid", 0, [output |-> o, old |-> old], 0, <<>>)
            /\ UNCHANGED out_props
       ELSE /\ last' = Done(req, sv.ret, FALSE, FALSE)
            /\ ioctl' = Ioctl("update_edid", 0, [output |-> o, old |-> old],
                              sv.ret, <<>>)
            /\ out_props' = [out_props EXCEPT ![o] = sv.sl]
    /\ UNCHANGED <<output_crtc, crtc, has_base, probe_vars, list_vars, props,
                   lock_vars, file_fbs, released>>

\* ------------------------------------------------------------ specification
\* drm_crtc_create: kzalloc, nothing else set.
NewCrtcObj == [enabled |-> FALSE, mode |-> ZeroMode, x |-> 0, y |-> 0,
               fb |-> NULL, desired_mode |-> NoMode,
               desired_x |-> 0, desired_y |-> 0]

\* What the mode_fixup callbacks answer during one call: drm_crtc_set_mode
\* stops at the first that returns false, so at most one does.
FixupAnswers ==
    {a \in [out : [Outputs -> BOOLEAN], crtc : BOOLEAN] :
        Cardinality({o \in Outputs : ~a.out[o]}) + (IF a.crtc THEN 0 ELSE 1) <= 1}

\* The drm_crtc_funcs tables a driver hands to drm_crtc_create: one table for
\* all its CRTCs, with or without mode_set_base.
FuncTables == {[c \in CRTCs |-> b] : b \in BOOLEAN}

Init ==
    /\ output_crtc = [o \in Outputs |-> NULL]
    /\ crtc = [c \in CRTCs |-> NewCrtcObj]
    /\ has_base \in FuncTables
    /\ crtc_idr = InitialIds
    /\ calls = <<>>
    /\ ncalls = 0
    /\ last = [req |-> NoRequest, ret |-> 0, changed |-> FALSE,
               flip_or_move |-> FALSE, oops |-> FALSE,
               pre |-> [output_crtc |-> output_crtc, crtc |-> crtc,
                        crtc_idr |-> crtc_idr]]
    /\ out_status = [o \in Outputs |-> "unknown"]
    /\ out_modes = [o \in Outputs |-> <<>>]
    /\ possible_crtcs = [o \in Outputs |-> CRTCs]
    /\ possible_clones = [o \in Outputs |-> {}]
    /\ hotplug_counter = 0
    /\ probed_modes = [o \in Outputs |-> <<>>]
    /\ user_modes = [o \in Outputs |-> <<>>]
    /\ props = <<>>
    /\ out_props = [o \in Outputs |-> NoSlots]
    /\ mutex = NULL
    /\ thread = <<>>
    /\ ents = {}
    /\ file_fbs = <<>>
    /\ released = {}
    /\ ioctl = NoIoctl

Next ==
    \/ \E c \in CRTCs, mode \in ModePool \cup {NoMode}, p \in Positions,
          outs \in SUBSET Outputs, fb \in Fbs \cup {NULL},
          a \in FixupAnswers :
            SetConfig(c, mode, p[1], p[2], outs, fb, a.out, a.crtc)
    \/ \E mode \in ModePool \cup {NoMode}, outs \in SUBSET Outputs :
            SetConfigNoCrtc(mode, 0, 0, outs, NULL)
    \/ \E c \in CRTCs, mode \in ModePool \cup {NoMode}, outs \in SUBSET Outputs :
            SetConfigNoMem(c, mode, 0, 0, outs, NULL)
    \/ \E c \in CRTCs, mode \in ModePool, p \in Positions,
          a \in FixupAnswers :
            SetMode(c, mode, p[1], p[2], a.out, a.crtc)
    \/ DisableUnused
    \/ Return

Spec == Init /\ [][Next]_vars

\* ------------------------------------- specification: probing and assignment
\* The possible_crtcs masks of the drivers looked at: every output may use
\* every CRTC, or only the first, or the first output only the last CRTC, or
\* the later outputs every CRTC and the first output only the first.
EligibilityMasks ==
    {[o \in Outputs |-> CRTCs],
     [o \in Outputs |-> {1}],
     [o \in Outputs |-> IF o = 1 THEN {NumCrtcs} ELSE {1}],
     [o \in Outputs |-> IF o = 1 THEN {1} ELSE CRTCs]}

\* The device after driver initialisation, before drm_initial_config: every
\* output has the eligibility and clone masks its driver gave it.
AssignInit ==
    /\ output_crtc = [o \in Outputs |-> NULL]
    /\ crtc = [c \in CRTCs |-> NewCrtcObj]
    /\ has_base = [c \in CRTCs |-> TRUE]
    /\ crtc_idr = InitialIds
    /\ calls = <<>>
    /\ ncalls = 0
    /\ last = [req |-> NoRequest, ret |-> 0, changed |-> FALSE,
               flip_or_move |-> FALSE, oops |-> FALSE,
               pre |-> [output_crtc |-> output_crtc, crtc |-> crtc,
                        crtc_idr |-> crtc_idr]]
    /\ out_status = [o \in Outputs |-> "unknown"]
    /\ out_modes = [o \in Outputs |-> <<>>]
    /\ possible_crtcs \in EligibilityMasks
    /\ possible_clones \in {[o \in Outputs |-> b] : b \in SUBSET CloneBits}
    /\ hotplug_counter = 0
    /\ probed_modes = [o \in Outputs |-> <<>>]
    /\ user_modes = [o \in Outputs |-> <<>>]
    /\ props = <<>>
    /\ out_props = [o \in Outputs |-> NoSlots]
    /\ mutex = NULL
    /\ thread = <<>>
    /\ ents = {}
    /\ file_fbs = <<>>
    /\ released = {}
    /\ ioctl = NoIoctl

\* The mode_fixup answers used with probing: every callback accepts.
ProbeFixups == {a \in FixupAnswers : a.crtc /\ \A o \in Outputs : a.out[o]}

AssignNext ==
    \/ \E found \in [Outputs -> ProbeOutcomes], fbp \in Fbs \cup {NULL},
          a \in ProbeFixups :
            InitialConfig(found, fbp, a.out, a.crtc)
    \/ \E o \in Outputs, connected \in BOOLEAN,
          found \in [Outputs -> ProbeOutcomes], fbp \in Fbs \cup {NULL},
          a \in ProbeFixups :
            Hotplug(o, connected, found, fbp, a.out, a.crtc)
    \/ \E c \in CRTCs, mode \in {ModeObj(1), NoMode}, outs \in SUBSET Outputs,
          fb \in Fbs, a \in ProbeFixups :
            SetConfig(c, mode, 0, 0, outs, fb, a.out, a.crtc)
    \/ \E c \in CRTCs, a \in ProbeFixups :
            SetMode(c, ModeObj(1), 0, 0, a.out, a.crtc)
    \/ Return

AssignSpec == AssignInit /\ [][AssignNext]_vars

\* --------------------------------------------- specification: framebuffers
\* The registry once the driver has created its CRTCs and outputs and the
\* modes of ModePool exist.
DeviceIds == {e.id : e \in DeviceEnts} \cup {m.mode_id : m \in ModePool}

\* The device after driver initialisation, no file owning a framebuffer.
FbInit ==
    /\ output_crtc = [o \in Outputs |-> NULL]
    /\ crtc = [c \in CRTCs |-> NewCrtcObj]
    /\ has_base = [c \in CRTCs |-> TRUE]
    /\ crtc_idr = DeviceIds
    /\ calls = <<>>
    /\ ncalls = 0
    /\ last = [req |-> NoRequest, ret |-> 0, changed |-> FALSE,
               flip_or_move |-> FALSE, oops |-> FALSE,
               pre |-> [output_crtc |-> output_crtc, crtc |-> crtc,
                        crtc_idr |-> crtc_idr]]
    /\ out_status = [o \in Outputs |-> "unknown"]
    /\ out_modes = [o \in Outputs |-> <<>>]
    /\ possible_crtcs = [o \in Outputs |-> CRTCs]
    /\ possible_clones = [o \in Outputs |-> {}]
    /\ hotplug_counter = 0
    /\ probed_modes = [o \in Outputs |-> <<>>]
    /\ user_modes = [o \in Outputs |-> <<>>]
    /\ props = <<>>
    /\ out_props = [o \in Outputs |-> NoSlots]
    /\ mutex = NULL
    /\ thread = <<>>
    /\ ents = DeviceEnts
    /\ file_fbs = [f \in Files |-> <<>>]
    /\ released = {}
    /\ ioctl = NoIoctl

AddfbOutcomes == {"size", "handle", "nomem", "ok"}

FbNext ==
    \/ \E f \in Files, how \in AddfbOutcomes : Addfb(f, how)
    \/ \E f \in Files, id \in IdSpace, alias \in BOOLEAN : Rmfb(f, id, alias)
    \/ \E f \in Files : FbRelease(f)
    \/ \E c \in CRTCs, mode \in {ModeObj(1), NoMode}, outs \in SUBSET Outputs,
          fb \in FbAddrs \cup {NULL}, a \in ProbeFixups :
            SetConfigFb(c, mode, outs, fb, a.out, a.crtc)
    \/ Return

FbSpec == FbInit /\ [][FbNext]_vars

\* ------------------------------------------ specification: reading a CRTC
\* Framebuffers are added, configurations applied and CRTCs read back.
GetNext ==
    \/ \E f \in Files : Addfb(f, "ok")
    \/ \E c \in CRTCs, mode \in {ModeObj(1), NoMode}, outs \in SUBSET Outputs,
          fb \in FbAddrs \cup {NULL}, a \in ProbeFixups :
            SetConfigFb(c, mode, outs, fb, a.out, a.crtc)
    \/ \E id \in IdSpace : GetcrtcReport(id)
    \/ Return

GetSpec == FbInit /\ [][GetNext]_vars

\* ------------------------------------------- specification: entity store
\* The device after driver initialisation: the driver has created none, one
\* or two properties after its CRTCs, outputs and modes.
StoreInit ==
    /\ output_crtc = [o \in Outputs |-> NULL]
    /\ crtc = [c \in CRTCs |-> NewCrtcObj]
    /\ has_base = [c \in CRTCs |-> TRUE]
    /\ LET id1 == drm_idr_get(DeviceIds)
           id2 == drm_idr_get(IdrAdd(DeviceIds, id1))
           p1  == Ent("property", 1, id1)
           p2  == Ent("property", 2, id2)
       IN \E P \in {{}, {p1}, {p1, p2}} :
            /\ ents = DeviceEnts \cup P
            /\ crtc_idr = DeviceIds \cup {p.id : p \in P}
    /\ calls = <<>>
    /\ ncalls = 0
    /\ last = [req |-> NoRequest, ret |-> 0, changed |-> FALSE,
               flip_or_move |-> FALSE, oops |-> FALSE,
               pre |-> [output_crtc |-> output_crtc, crtc |-> crtc,
                        crtc_idr |-> crtc_idr]]
    /\ out_status = [o \in Outputs |-> "unknown"]
    /\ out_modes = [o \in Outputs |-> <<>>]
    /\ possible_crtcs = [o \in Outputs |-> CRTCs]
    /\ possible_clones = [o \in Outputs |-> {}]
    /\ hotplug_counter = 0
    /\ probed_modes = [o \in Outputs |-> <<>>]
    /\ user_modes = [o \in Outputs |-> <<>>]
    /\ props = <<>>
    /\ out_props = [o \in Outputs |-> NoSlots]
    /\ mutex = NULL
    /\ thread = <<>>
    /\ file_fbs = [f \in Files |-> <<>>]
    /\ released = {}
    /\ ioctl = NoIoctl

\* The identifiers user space passes: those of the first CRTC, the first
\* output and the first mode, and the ones the registry has left for
\* framebuffers and properties.
UserIds == {1, OutputId(1), ModeObj(1).mode_id} \cup (IdSpace \ DeviceIds)

\* The drm_mode_setcrtc requests looked at.
SetcrtcReqs ==
    {SetcrtcReq(c, mv, ModeObj(1).hdisplay, f, os) :
        c \in {1, NumCrtcs} \cup (IdSpace \ DeviceIds),
        mv \in BOOLEAN,
        f \in {-1, 1} \cup (IdSpace \ DeviceIds),
        os \in {{}, {OutputId(1)}, {OutputId(o) : o \in Outputs}}
               \cup {{i} : i \in IdSpace \ DeviceIds}}

StoreNext ==
    \/ \E f \in Files, how \in AddfbOutcomes : Addfb(f, how)
    \/ \E f \in Files, id \in UserIds, alias \in BOOLEAN : Rmfb(f, id, alias)
    \/ \E f \in Files : FbRelease(f)
    \/ \E id \in UserIds, alias \in BOOLEAN : Getcrtc(id, alias)
    \/ \E id \in UserIds, alias \in BOOLEAN : Getoutput(id, alias)
    \/ \E id \in UserIds, alias \in BOOLEAN : Getfb(id, alias)
    \/ \E id \in UserIds, alias \in BOOLEAN : Getproperty(id, alias)
    \/ \E id \in UserIds, alias \in BOOLEAN : Getblob(id, alias)
    \/ \E mem \in BOOLEAN : PropertyCreate(mem)
    \/ \E n \in 1..MaxProps : PropertyDestroy(n)
    \/ \E rq \in SetcrtcReqs, alias \in BOOLEAN, a \in ProbeFixups :
            Setcrtc(rq, alias, a.out, a.crtc)
    \/ Return

StoreSpec == StoreInit /\ [][StoreNext]_vars

\* ------------------------------------------------ specification: mode lists
\* The registry of a device with its CRTCs and outputs and no mode yet.
BareIds == 1..(NumCrtcs + NumOutputs)

ProbeInit ==
    /\ output_crtc = [o \in Outputs |-> NULL]
    /\ crtc = [c \in CRTCs |-> NewCrtcObj]
    /\ has_base = [c \in CRTCs |-> TRUE]
    /\ crtc_idr = BareIds
    /\ calls = <<>>
    /\ ncalls = 0
    /\ last = [req |-> NoRequest, ret |-> 0, changed |-> FALSE,
               flip_or_move |-> FALSE, oops |-> FALSE,
               pre |-> [output_crtc |-> output_crtc, crtc |-> crtc,
                        crtc_idr |-> crtc_idr]]
    /\ out_status = [o \in Outputs |-> "unknown"]
    /\ out_modes = [o \in Outputs |-> <<>>]
    /\ possible_crtcs = [o \in Outputs |-> CRTCs]
    /\ possible_clones = [o \in Outputs |-> {}]
    /\ hotplug_counter = 0
    /\ probed_modes = [o \in Outputs |-> <<>>]
    /\ user_modes = [o \in Outputs |-> <<>>]
    /\ props = <<>>
    /\ out_props = [o \in Outputs |-> NoSlots]
    /\ mutex = NULL
    /\ thread = <<>>
    /\ ents = {}
    /\ file_fbs = <<>>
    /\ released = {}
    /\ ioctl = NoIoctl

\* What the driver's get_modes reports in one probe.
GetModesAnswers ==
    {<<>>} \cup {<<m>> : m \in DriverModes}
    \cup {<<a, b>> : a \in {m \in DriverModes : m.hdisplay = 1},
                     b \in {m \in DriverModes : m.hdisplay = 2}}

\* The size bounds passed to the probe: none, or one that excludes the wider
\* mode.
SizeBounds == {<<0, 0>>, <<1, 1>>, <<1, 0>>}

ProbeNext ==
    \/ \E sz \in SizeBounds, st \in {"connected", "disconnected", "unknown"},
          ans \in GetModesAnswers, valid \in SUBSET {1, 2} :
            ProbeSingle(1, sz[1], sz[2], st, ans, valid)
    \/ \E id \in {OutputId(1), NumCrtcs + NumOutputs + 1},
          t \in {m \in DriverModes : m.type = {"DRIVER"}}, mem \in BOOLEAN :
            AttachMode(id, t, mem)
    \/ \E id \in {OutputId(1), NumCrtcs + NumOutputs + 1},
          t \in {m \in DriverModes : m.type = {"DRIVER"}} :
            DetachMode(id, t)
    \/ Return

ProbeSpec == ProbeInit /\ [][ProbeNext]_vars

\* ------------------------------------------- specification: property system
\* The flag sets of the properties the device is given: an enum property
\* with room for two values and a two-valued property that is a range or a
\* plain list, each of them immutable or not.
PropertyFlags ==
    {<<f1, f2>> : f1 \in {{"ENUM"}, {"ENUM", "IMMUTABLE"}},
                  f2 \in {{"RANGE"}, {"RANGE", "IMMUTABLE"}, {}}}

\* The bounds the driver writes into values[0] and values[1] of the second
\* property after drm_property_create.
RangeValues == <<1, 2>>

\* The values and names the callers pass.
PropValues == 0..3
EnumNames == {<<"a">>, <<"b", "c">>, <<"b", "c", "d">>}

PropInit ==
    /\ output_crtc = [o \in Outputs |-> NULL]
    /\ crtc = [c \in CRTCs |-> NewCrtcObj]
    /\ has_base = [c \in CRTCs |-> TRUE]
    /\ crtc_idr = 1..(NumCrtcs + NumOutputs + 2)
    /\ calls = <<>>
    /\ ncalls = 0
    /\ last = [req |-> NoRequest, ret |-> 0, changed |-> FALSE,
               flip_or_move |-> FALSE, oops |-> FALSE,
               pre |-> [output_crtc |-> output_crtc, crtc |-> crtc,
                        crtc_idr |-> crtc_idr]]
    /\ out_status = [o \in Outputs |-> "unknown"]
    /\ out_modes = [o \in Outputs |-> <<>>]
    /\ possible_crtcs = [o \in Outputs |-> CRTCs]
    /\ possible_clones = [o \in Outputs |-> {}]
    /\ hotplug_counter = 0
    /\ probed_modes = [o \in Outputs |-> <<>>]
    /\ user_modes = [o \in Outputs |-> <<>>]
    /\ \E fl \in PropertyFlags :
         props = <<NewProperty(NumCrtcs + NumOutputs + 1, fl[1], 2),
                   [NewProperty(NumCrtcs + NumOutputs + 2, fl[2], 2)
                        EXCEPT !.values = RangeValues]>>
    /\ out_props = [o \in Outputs |-> NoSlots]
    /\ mutex = NULL
    /\ thread = <<>>
    /\ ents = {}
    /\ file_fbs = <<>>
    /\ released = {}
    /\ ioctl = NoIoctl

PropNext ==
    \/ \E index \in 0..1, value \in {1, 2}, name \in EnumNames,
          mem \in BOOLEAN, n \in 1..2 :
            AddEnum(n, index, value, name, mem)
    \/ \E n \in 1..2, v \in {0, 1} : Attach(1, n, v)
    \/ \E oid \in {OutputId(1), NumCrtcs + NumOutputs + 3},
          pid \in {0} \cup (NumCrtcs + NumOutputs + 1)..(NumCrtcs + NumOutputs + 3),
          value \in PropValues, cb \in SetPropertyCallbacks :
            PropertySet(oid, pid, value, cb)
    \/ Return

PropSpec == PropInit /\ [][PropNext]_vars

\* ------------------------------------------------- specification: locking
LockInit ==
    /\ output_crtc = [o \in Outputs |-> NULL]
    /\ crtc = [c \in CRTCs |-> NewCrtcObj]
    /\ has_base = [c \in CRTCs |-> TRUE]
    /\ crtc_idr = InitialIds
    /\ calls = <<>>
    /\ ncalls = 0
    /\ last = [req |-> NoRequest, ret |-> 0, changed |-> FALSE,
               flip_or_move |-> FALSE, oops |-> FALSE,
               pre |-> [output_crtc |-> output_crtc, crtc |-> crtc,
                        crtc_idr |-> crtc_idr]]
    /\ out_status = [o \in Outputs |-> "unknown"]
    /\ out_modes = [o \in Outputs |-> <<>>]
    /\ possible_crtcs = [o \in Outputs |-> CRTCs]
    /\ possible_clones = [o \in Outputs |-> {}]
    /\ hotplug_counter = 0
    /\ probed_modes = [o \in Outputs |-> <<>>]
    /\ user_modes = [o \in Outputs |-> <<>>]
    /\ props = <<>>
    /\ out_props = [o \in Outputs |-> NoSlots]
    /\ mutex = NULL
    /\ thread = [t \in Threads |-> Idle]
    /\ ents = {}
    /\ file_fbs = <<>>
    /\ released = {}
    /\ ioctl = NoIoctl

LockNext ==
    \/ \E t \in Threads, fn \in EntryPoints :
          \E args \in CallArgs(fn) : Enter(t, fn, args)
    \/ \E t \in Threads : EarlyReturn(t)
    \/ \E t \in Threads : Lock(t)
    \/ \E t \in Threads : Body(t)
    \/ \E t \in Threads : SetcrtcStart(t)
    \/ \E t \in Threads : BindNext(t)
    \/ \E t \in Threads : ModeSet(t)
    \/ \E t \in Threads : RestoreNext(t)
    \/ \E t \in Threads : Unlock(t)
    \/ \E t \in Threads : Leave(t)

LockSpec == LockInit /\ [][LockNext]_vars

\* ------------------------------------- specification: creation and teardown
\* The device after driver initialisation and a probe: the standard
\* properties, the CRTCs and one or both outputs exist, every live output has
\* the EDID and DPMS properties attached, outputs are bound or not, and one
\* mode may be on one list of one output.
TeardownInit ==
    \E live \in {{1}, Outputs}, holder \in Outputs \cup {NULL},
       which \in {"probed", "modes", "user"} :
        LET base == CRTCs \cup {OutputId(o) : o \in live}
                          \cup {edid_property, dpms_property}
            m    == NewMode(base, CHOOSE d \in DriverModes : d.hdisplay = 1)
            list(o, w) == IF o = holder /\ which = w THEN <<m>> ELSE <<>>
            slots == drm_output_attach_property(
                        drm_output_attach_property(NoSlots, edid_property, 0).sl,
                        dpms_property, 0).sl
        IN
        /\ holder \in live \cup {NULL}
        /\ output_crtc \in [Outputs -> CRTCs \cup {NULL}]
        /\ \A o \in Outputs \ live : output_crtc[o] = NULL
        /\ crtc = [c \in CRTCs |-> NewCrtcObj]
        /\ has_base = [c \in CRTCs |-> TRUE]
        /\ crtc_idr = IF holder = NULL THEN base ELSE IdrAdd(base, m.mode_id)
        /\ calls = <<>>
        /\ ncalls = 0
        /\ last = [req |-> NoRequest, ret |-> 0, changed |-> FALSE,
                   flip_or_move |-> FALSE, oops |-> FALSE,
                   pre |-> [output_crtc |-> output_crtc, crtc |-> crtc,
                            crtc_idr |-> crtc_idr]]
        /\ out_status = [o \in Outputs |-> "unknown"]
        /\ out_modes = [o \in Outputs |-> list(o, "modes")]
        /\ possible_crtcs = [o \in Outputs |-> CRTCs]
        /\ possible_clones = [o \in Outputs |-> {}]
        /\ hotplug_counter = 0
        /\ probed_modes = [o \in Outputs |-> list(o, "probed")]
        /\ user_modes = [o \in Outputs |-> list(o, "user")]
        /\ props = <<>>
        /\ out_props = [o \in Outputs |-> IF o \in live THEN slots ELSE NoSlots]
        /\ mutex = NULL
        /\ thread = [t \in Threads |-> Idle]
        /\ ents = {Ent("crtc", c, c) : c \in CRTCs}
                  \cup {Ent("output", o, OutputId(o)) : o \in live}
                  \cup {Ent("property", 1, edid_property),
                        Ent("property", 2, dpms_property)}
        /\ file_fbs = [f \in Files |-> <<>>]
        /\ released = {}
        /\ ioctl = NoIoctl

TeardownNext ==
    \/ \E t \in Threads, fn \in KernelFns, obj \in Outputs \cup CRTCs \cup {NULL},
          held \in BOOLEAN : KernelCall(t, fn, obj, held)
    \/ \E t \in Threads : OutputAlloc(t)
    \/ \E t \in Threads : MutexLock(t)
    \/ \E t \in Threads : OutputLink(t)
    \/ \E t \in Threads : OutputRemoveModes(t)
    \/ \E t \in Threads : OutputUnlink(t)
    \/ \E t \in Threads : CrtcDestroy(t)
    \/ \E t \in Threads : CleanupNext(t)
    \/ \E t \in Threads : KernelReturn(t)

TeardownSpec == TeardownInit /\ [][TeardownNext]_vars

\* ------------------------------------------ specification: EDID updates
\* The driver hands the EDID it read, or none, to the outputs.
EdidNext ==
    \/ \E o \in Outputs, edid \in {NULL, 1}, mem \in BOOLEAN :
          UpdateEdid(o, edid, mem)
    \/ Return

EdidSpec == TeardownInit /\ [][EdidNext]_vars

\* ------------------------------------------------------------- properties
\* The call in `last` is a drm_crtc_set_config that got past its argument and
\* allocation checks, on CRTC TargetCrtc.
IsSetConfig ==
    /\ last.req.op = "set_config"
    /\ last.req.crtc # NULL
    /\ last.oops \/ last.ret # -ENOMEM

IsSetMode == last.req.op = "set_mode"

TargetCrtc == last.req.crtc

\* The call returned (it did not oops) with this value.
Returned(v) == ~last.oops /\ last.ret = v

\* Callbacks of the mode-apply protocol, as opposed to the dpms sweep.
ApplyFns == {"mode_fixup", "prepare", "mode_set", "commit"}

Invoked(fns) == {i \in DOMAIN calls : calls[i].fn \in fns}

FixupRejected == \E i \in DOMAIN calls : calls[i].fn = "mode_fixup" /\ ~calls[i].ret

\* The outputs bound to CRTC c under bindings oc.
OutputsOn(oc, c) == {o \in Outputs : oc[o] = c}

\* C1: when drm_crtc_set_config with a mode is rejected by a mode_fixup
\* callback (of an output or of the CRTC), it returns -EINVAL and every
\* output's crtc pointer and the target CRTC's mode, x, y and enabled are what
\* they were before the call.
C1_FixupRejectionRollsBack ==
    (IsSetConfig /\ last.req.mode # NoMode /\ FixupRejected) =>
        /\ Returned(-EINVAL)
        /\ output_crtc = last.pre.output_crtc
        /\ crtc[TargetCrtc].mode = last.pre.crtc[TargetCrtc].mode
        /\ crtc[TargetCrtc].x = last.pre.crtc[TargetCrtc].x
        /\ crtc[TargetCrtc].y = last.pre.crtc[TargetCrtc].y
        /\ crtc[TargetCrtc].enabled = last.pre.crtc[TargetCrtc].enabled

\* A rejected request that would have moved an output away from another CRTC,
\* changed the mode and position and enabled a disabled CRTC.
C1_Witness ==
    /\ IsSetConfig /\ last.req.mode # NoMode /\ FixupRejected
    /\ \E o \in last.req.outputs :
          output_crtc[o] # NULL /\ output_crtc[o] # TargetCrtc
    /\ ~crtc[TargetCrtc].enabled
    /\ crtc[TargetCrtc].mode.hdisplay # last.req.mode.hdisplay
    /\ crtc[TargetCrtc].x # last.req.x

\* C2: once a mode_fixup callback has returned false, the attempt invokes
\* nothing more: the rejecting call is the last callback, and no prepare,
\* mode_set or commit is invoked at all.
C2_NoCallbackAfterRejection ==
    \A i \in DOMAIN calls :
        (calls[i].fn = "mode_fixup" /\ ~calls[i].ret) =>
            /\ i = Len(calls)
            /\ Invoked({"prepare", "mode_set", "commit"}) = {}

\* A rejection by the CRTC's fixup after an output's fixup accepted, and one
\* by the second of two outputs.
C2_Witness ==
    /\ Len(calls) = 2
    /\ calls[1].fn = "mode_fixup" /\ calls[1].obj = "output" /\ calls[1].ret
    /\ calls[2].fn = "mode_fixup" /\ ~calls[2].ret

\* The place of a callback in the order of the mode-apply protocol.
Phase(call) ==
    CASE call.fn = "mode_fixup" /\ call.obj = "output" -> 1
      [] call.fn = "mode_fixup" /\ call.obj = "crtc"   -> 2
      [] call.fn = "prepare"    /\ call.obj = "output" -> 3
      [] call.fn = "prepare"    /\ call.obj = "crtc"   -> 4
      [] call.fn = "mode_set"   /\ call.obj = "crtc"   -> 5
      [] call.fn = "mode_set"   /\ call.obj = "output" -> 6
      [] call.fn = "commit"     /\ call.obj = "crtc"   -> 7
      [] call.fn = "commit"     /\ call.obj = "output" -> 8
      [] OTHER -> 9

\* The mode-apply attempt of the call ran in full: it reached the fixups and
\* none rejected.
FullApply ==
    /\ IsSetConfig \/ IsSetMode
    /\ ~last.oops
    /\ Invoked({"mode_fixup"}) # {}
    /\ ~FixupRejected

\* C3: a mode-apply attempt that is neither short-circuited nor rejected
\* invokes mode_fixup, prepare, mode_set and commit exactly once on every
\* output bound to the CRTC and exactly once on the CRTC, on nothing else, in
\* the order output fixups, CRTC fixup, output prepares, CRTC prepare, CRTC
\* mode_set, output mode_sets, CRTC commit, output commits.
C3_FullApplyOrder ==
    FullApply =>
        /\ \A fn \in ApplyFns :
              /\ \A o \in OutputsOn(output_crtc, TargetCrtc) :
                    Cardinality({i \in DOMAIN calls :
                        calls[i].fn = fn /\ calls[i].obj = "output"
                        /\ calls[i].n = o}) = 1
              /\ Cardinality({i \in DOMAIN calls :
                    calls[i].fn = fn /\ calls[i].obj = "crtc"
                    /\ calls[i].n = TargetCrtc}) = 1
        /\ \A i \in Invoked(ApplyFns) :
              \/ calls[i].obj = "crtc" /\ calls[i].n = TargetCrtc
              \/ calls[i].obj = "output"
                 /\ calls[i].n \in OutputsOn(output_crtc, TargetCrtc)
        /\ \A i, j \in Invoked(ApplyFns) :
              i < j => Phase(calls[i]) <= Phase(calls[j])
        /\ Invoked({"mode_set_base"}) = {}

\* A full apply on a CRTC that drives two outputs while a third object, the
\* other CRTC, stays out of it.
C3_Witness ==
    /\ FullApply
    /\ Cardinality(OutputsOn(output_crtc, TargetCrtc)) >= 2
    /\ Cardinality(Invoked(ApplyFns)) = 12

\* C4: drm_crtc_set_mode sets crtc->enabled to "some output is bound to this
\* CRTC"; on a CRTC no output is bound to it returns true at once, invokes no
\* callback and leaves mode, x and y alone.  (Seen after a direct call, and
\* after a drm_crtc_set_config whose mode-apply succeeded.)
C4_UnusedCrtcShortCircuit ==
    LET c     == TargetCrtc
        used  == OutputsOn(output_crtc, c) # {}
        ran   == \/ IsSetMode
                 \/ IsSetConfig /\ last.changed /\ last.req.mode # NoMode
                    /\ Returned(0)
    IN ran =>
        /\ crtc[c].enabled = used
        /\ ~used =>
              /\ ~last.oops
              /\ IsSetMode => last.ret = 1
              /\ Invoked(ApplyFns \cup {"mode_set_base"}) = {}
              /\ crtc[c].mode = last.pre.crtc[c].mode
              /\ crtc[c].x = last.pre.crtc[c].x
              /\ crtc[c].y = last.pre.crtc[c].y

\* Mode-apply on a CRTC that was enabled and has just lost its only output,
\* with a different mode and position asked for.
C4_Witness ==
    /\ IsSetConfig /\ last.changed /\ last.req.mode # NoMode /\ Returned(0)
    /\ OutputsOn(output_crtc, TargetCrtc) = {}
    /\ OutputsOn(last.pre.output_crtc, TargetCrtc) # {}
    /\ last.pre.crtc[TargetCrtc].enabled
    /\ last.req.mode.hdisplay # crtc[TargetCrtc].mode.hdisplay
    /\ last.req.x # crtc[TargetCrtc].x

\* The request differs from the state before the call only in position and/or
\* framebuffer: its mode equals the current one and it names exactly the
\* outputs already bound to the CRTC.
OnlyMoves ==
    LET c == TargetCrtc IN
    /\ IsSetConfig
    /\ last.req.mode # NoMode
    /\ last.req.mode.hdisplay = last.pre.crtc[c].mode.hdisplay
    /\ last.req.outputs = OutputsOn(last.pre.output_crtc, c)
    /\ \/ last.req.fb # last.pre.crtc[c].fb
       \/ last.req.x # last.pre.crtc[c].x
       \/ last.req.y # last.pre.crtc[c].y

\* C5 (as claimed): on a CRTC without mode_set_base a request that only moves
\* or flips is carried out as a full apply, and a missing mode_set_base is
\* never called, by drm_crtc_set_config or by drm_crtc_set_mode.
C5_NoRebaseMeansFullApply ==
    /\ \A i \in Invoked({"mode_set_base"}) : has_base[calls[i].n]
    /\ (OnlyMoves /\ ~has_base[TargetCrtc]
        /\ OutputsOn(last.pre.output_crtc, TargetCrtc) # {}) =>
            /\ ~last.oops
            /\ \A fn \in ApplyFns : Invoked({fn}) # {}

\* The binding drm_crtc_set_config gives output o, from the bindings before
\* the call.
BindingAsked(o) ==
    IF o \in last.req.outputs THEN TargetCrtc
    ELSE IF last.pre.output_crtc[o] = TargetCrtc THEN NULL
    ELSE last.pre.output_crtc[o]

\* C6: drm_crtc_set_config binds every listed output to the CRTC (taking it
\* from another CRTC if need be), unbinds every unlisted output bound to the
\* CRTC and leaves the other outputs alone; the new bindings are in place
\* before any callback runs (the callbacks of the mode-apply go to the outputs
\* bound under the new bindings, and the bindings stand when a callback
\* oopses); changed is set whenever a binding differs.
C6_BindingsComputed ==
    IsSetConfig =>
        /\ (last.oops \/ last.ret = 0) =>
              \A o \in Outputs : output_crtc[o] = BindingAsked(o)
        /\ \A i \in Invoked(ApplyFns) :
              calls[i].obj = "output" => BindingAsked(calls[i].n) = TargetCrtc
        /\ (Invoked(ApplyFns) # {} /\ \E o \in Outputs : BindingAsked(o) = TargetCrtc) =>
              \E i \in Invoked({"mode_fixup"}) :
                  /\ calls[i].obj = "output"
                  /\ BindingAsked(calls[i].n) = TargetCrtc
                  /\ \A o \in Outputs : BindingAsked(o) = TargetCrtc => calls[i].n <= o
        /\ (\E o \in Outputs : BindingAsked(o) # last.pre.output_crtc[o]) =>
              last.changed

\* One call takes an output from the other CRTC while the other output stays
\* bound to that other CRTC, and the mode-apply runs on the new bindings.
C6_Witness ==
    /\ IsSetConfig /\ Returned(0)
    /\ \E o \in last.req.outputs :
          /\ last.pre.output_crtc[o] \notin {NULL, TargetCrtc}
          /\ output_crtc[o] = TargetCrtc
          /\ \E i \in Invoked({"prepare"}) : calls[i].obj = "output" /\ calls[i].n = o
    /\ \E o \in Outputs \ last.req.outputs :
          output_crtc[o] \notin {NULL, TargetCrtc}

\* What the request changes, from the state before the call.
ModeDiffers ==
    /\ last.req.mode # NoMode
    /\ last.req.mode.hdisplay # last.pre.crtc[TargetCrtc].mode.hdisplay

Moves ==
    \/ last.req.fb # last.pre.crtc[TargetCrtc].fb
    \/ last.req.x # last.pre.crtc[TargetCrtc].x
    \/ last.req.y # last.pre.crtc[TargetCrtc].y

BindingDiffers == \E o \in Outputs : BindingAsked(o) # last.pre.output_crtc[o]

\* C7 (as claimed): changed is true whenever the framebuffer, the position or
\* the mode asked for differs from the CRTC's current one.
C7_ChangedOnAnyDifference ==
    (IsSetConfig /\ (Moves \/ ModeDiffers)) => last.changed

\* C7 (amended): changed is true exactly when a non-null mode asked for
\* differs from the current mode, or a binding changes, or the framebuffer or
\* position differs on a CRTC without mode_set_base.  A framebuffer or
\* position difference sets flip_or_move; on a CRTC with mode_set_base it
\* does not by itself set changed.
C7_ChangedExactly ==
    IsSetConfig =>
        /\ last.flip_or_move = Moves
        /\ last.changed =
              (ModeDiffers \/ BindingDiffers \/ (Moves /\ ~has_base[TargetCrtc]))

\* Only the framebuffer differs, the CRTC has mode_set_base: moved, not changed.
C7_Witness ==
    /\ IsSetConfig /\ Returned(0)
    /\ has_base[TargetCrtc]
    /\ last.req.fb # last.pre.crtc[TargetCrtc].fb
    /\ last.req.mode # NoMode
    /\ last.flip_or_move /\ ~last.changed

\* C8: when only the framebuffer and/or position differ and the CRTC has
\* mode_set_base (changed false, moved true), drm_crtc_set_config sets
\* crtc->fb to the framebuffer asked for, calls mode_set_base once with the
\* x, y asked for, calls nothing else (no mode-apply callback, no dpms) and
\* returns 0.
C8_RebaseOnly ==
    (IsSetConfig /\ Moves /\ ~ModeDiffers /\ ~BindingDiffers
     /\ has_base[TargetCrtc]) =>
        /\ ~last.changed /\ last.flip_or_move
        /\ Returned(0)
        /\ crtc[TargetCrtc].fb = last.req.fb
        /\ Len(calls) = 1
        /\ calls[1].fn = "mode_set_base"
        /\ calls[1].obj = "crtc" /\ calls[1].n = TargetCrtc
        /\ calls[1].arg = <<last.req.x, last.req.y>>

\* A rebase to a new framebuffer and a new position on a CRTC driving an output.
C8_Witness ==
    /\ IsSetConfig /\ ~last.changed /\ last.flip_or_move
    /\ last.req.fb # last.pre.crtc[TargetCrtc].fb
    /\ last.req.x # last.pre.crtc[TargetCrtc].x
    /\ OutputsOn(output_crtc, TargetCrtc) # {}
    /\ Len(calls) = 1

\* C9 (as claimed): after drm_crtc_set_config returns 0 for a request with a
\* mode and at least one output, the CRTC is enabled, its mode, position and
\* framebuffer are the ones asked for, and so are desired_mode/x/y.
C9_SuccessInstallsRequest ==
    (IsSetConfig /\ Returned(0) /\ last.req.mode # NoMode
     /\ last.req.outputs # {}) =>
        LET c == TargetCrtc IN
        /\ crtc[c].enabled
        /\ crtc[c].mode.hdisplay = last.req.mode.hdisplay
        /\ crtc[c].x = last.req.x /\ crtc[c].y = last.req.y
        /\ crtc[c].fb = last.req.fb
        /\ crtc[c].desired_mode = last.req.mode
        /\ crtc[c].desired_x = last.req.x /\ crtc[c].desired_y = last.req.y

\* C10: drm_crtc_set_config with no mode and an output set without the only
\* output bound to the CRTC unbinds that output, sets changed, disables the
\* CRTC, runs no mode-apply callback, and the sweep then calls dpms off on that
\* output and on the CRTC (outputs first).
C10_DisablePath ==
    \A o \in Outputs :
        (/\ IsSetConfig
         /\ last.req.mode = NoMode
         /\ OutputsOn(last.pre.output_crtc, TargetCrtc) = {o}
         /\ o \notin last.req.outputs) =>
            /\ Returned(0)
            /\ output_crtc[o] = NULL
            /\ last.changed
            /\ ~crtc[TargetCrtc].enabled
            /\ Invoked(ApplyFns \cup {"mode_set_base"}) = {}
            /\ \E i, j \in Invoked({"dpms"}) :
                  /\ i < j
                  /\ calls[i].obj = "output" /\ calls[i].n = o
                  /\ calls[j].obj = "crtc" /\ calls[j].n = TargetCrtc
            /\ \A i, j \in Invoked({"dpms"}) :
                  (calls[i].obj = calls[j].obj /\ calls[i].n = calls[j].n) => i = j

\* The CRTC was enabled and driving one output, and the request names no
\* output at all.
C10_Witness ==
    /\ IsSetConfig /\ last.req.mode = NoMode /\ Returned(0)
    /\ last.pre.crtc[TargetCrtc].enabled
    /\ \E o \in Outputs :
          /\ OutputsOn(last.pre.output_crtc, TargetCrtc) = {o}
          /\ o \notin last.req.outputs
    /\ last.req.outputs = {}
    /\ ~crtc[TargetCrtc].enabled

\* The dpms calls of the call in `last` that went to objects of kind obj.
DpmsOn(obj) == {i \in DOMAIN calls : calls[i].fn = "dpms" /\ calls[i].obj = obj}

\* C11: when drm_crtc_set_config takes the `changed` branch and returns 0, it
\* has by then called dpms once on every output whose crtc pointer is NULL
\* and once on every CRTC whose enabled is false, on no bound output and on no
\* enabled CRTC, all after the last mode-apply callback.
C11_SweepAfterFullApply ==
    (IsSetConfig /\ last.changed /\ Returned(0)) =>
        /\ \A o \in Outputs :
              Cardinality({i \in DpmsOn("output") : calls[i].n = o})
                  = IF output_crtc[o] = NULL THEN 1 ELSE 0
        /\ \A c \in CRTCs :
              Cardinality({i \in DpmsOn("crtc") : calls[i].n = c})
                  = IF crtc[c].enabled THEN 0 ELSE 1
        /\ \A i \in Invoked({"dpms"}) : calls[i].obj \in {"output", "crtc"}
        /\ \A i \in Invoked({"dpms"}), j \in Invoked(ApplyFns) : j < i

\* A successful full apply after which one output is bound and another is
\* not, and one CRTC is enabled and another is not.
C11_Witness ==
    /\ IsSetConfig /\ last.changed /\ Returned(0)
    /\ last.req.mode # NoMode
    /\ Invoked({"commit"}) # {}
    /\ \E o1, o2 \in Outputs : output_crtc[o1] = NULL /\ output_crtc[o2] # NULL
    /\ \E c1, c2 \in CRTCs : crtc[c1].enabled /\ ~crtc[c2].enabled

\* C33: when drm_crtc_set_config fails with -EINVAL because the mode was
\* rejected, the target CRTC's fb pointer is what it was before the call.
C33_RejectionRestoresFb ==
    (IsSetConfig /\ last.req.mode # NoMode /\ Returned(-EINVAL)) =>
        crtc[TargetCrtc].fb = last.pre.crtc[TargetCrtc].fb

\* C38: drm_crtc_set_mode leaves the registry as it found it: the identifier
\* of adjusted_mode is released on every way out (full apply, CRTC not in
\* use, reposition only, rejection by an output's or the CRTC's mode_fixup).
C38_SetModeLeaksNoId ==
    (IsSetMode /\ ~last.oops) => crtc_idr = last.pre.crtc_idr

\* C40: when drm_crtc_set_config has returned 0, the same request made again
\* at once finds neither `changed` nor `flip_or_move` set, so that it calls
\* no callback and writes nothing.
C40_SetConfigIdempotent ==
    (IsSetConfig /\ Returned(0)) =>
        LET r == last.req
        IN /\ ~Changed(output_crtc, crtc, has_base, r.crtc, r.mode, r.x, r.y,
                       r.outputs, r.fb)
           /\ ~FlipOrMove(crtc, r.crtc, r.x, r.y, r.fb)

\* ------------------------------------------ properties of the assignment
\* The call in `last` ran drm_pick_crtcs: drm_initial_config always does,
\* drm_hotplug_stage_two does for a connected output that had no CRTC with a
\* desired mode.
PickRan ==
    \/ last.req.op = "initial_config"
    \/ /\ last.req.op = "hotplug"
       /\ \E o \in last.req.outputs :
            \/ last.pre.output_crtc[o] = NULL
            \/ last.pre.crtc[last.pre.output_crtc[o]].desired_mode = NoMode

\* The bindings drm_pick_crtcs sees when it scans the CRTCs for output o: the
\* outputs before o have their new CRTC, the outputs after o still have the
\* one from before the call, o itself has been reset.
ScanBindings(o) ==
    [j \in Outputs |-> IF j < o THEN output_crtc[j]
                       ELSE IF j > o THEN last.pre.output_crtc[j]
                       ELSE NULL]

\* The CRTCs in output o's possible_crtcs that no other output has at that
\* point.
FreeFor(o) ==
    {c \in possible_crtcs[o] : \A j \in Outputs \ {o} : ScanBindings(o)[j] # c}

Usable(o) == out_status[o] = "connected" /\ out_modes[o] # <<>>

\* The first preferred mode of output o's list, else its first mode.
WantedMode(o) ==
    LET ms == out_modes[o]
        Pref(k) == "PREFERRED" \in ms[k].type
    IN IF \E k \in DOMAIN ms : Pref(k)
       THEN ms[CHOOSE k \in DOMAIN ms : Pref(k) /\ \A j \in 1..(k - 1) : ~Pref(j)]
       ELSE ms[1]

\* C12: every output with a CRTC has one that is enabled and whose index is
\* in the output's possible_crtcs mask, after any sequence of
\* drm_initial_config, drm_hotplug_stage_two, drm_crtc_set_config and
\* drm_crtc_set_mode calls.
C12_BoundCrtcEnabledAndEligible ==
    ~last.oops =>
        \A o \in Outputs :
            output_crtc[o] # NULL =>
                /\ crtc[output_crtc[o]].enabled
                /\ output_crtc[o] \in possible_crtcs[o]

\* C19: drm_pick_crtcs gives every connected output with a non-empty mode list
\* the lowest-index CRTC of its possible_crtcs that no other output has, and
\* sets that CRTC's desired_mode to the output's first preferred mode, or to
\* its first mode when none is preferred; an output for which no CRTC
\* qualifies ends with no CRTC.
C19_FirstFitAssignment ==
    PickRan =>
        \A o \in Outputs :
            Usable(o) =>
                IF FreeFor(o) = {}
                THEN output_crtc[o] = NULL
                ELSE /\ output_crtc[o] \in FreeFor(o)
                     /\ \A c \in FreeFor(o) : output_crtc[o] <= c
                     /\ crtc[output_crtc[o]].desired_mode = WantedMode(o)

\* An assignment in which an output passed over its first eligible CRTC
\* because another output had it, and got a desired mode that is preferred
\* and not the first of its list, while some usable output got no CRTC or
\* every usable output got one.
C19_Witness ==
    /\ PickRan
    /\ \E o \in Outputs :
        /\ Usable(o)
        /\ output_crtc[o] # NULL
        /\ \E c \in possible_crtcs[o] : c < output_crtc[o]
        /\ Len(out_modes[o]) > 1
        /\ crtc[output_crtc[o]].desired_mode = out_modes[o][2]
        /\ crtc[output_crtc[o]].desired_mode # out_modes[o][1]

\* Output a can clone output b on CRTC c: when a is scanned b has c, c is the
\* first CRTC of a's possible_crtcs that is free or held by b, the two
\* possible_clones masks share a bit and the two mode lists share a mode.
CloneCase(a, b, c) ==
    /\ a # b
    /\ Usable(a)
    /\ ScanBindings(a)[b] = c
    /\ c \in possible_crtcs[a]
    /\ \A d \in FreeFor(a) : c < d
    /\ (possible_clones[a] \cap possible_clones[b]) # {}
    /\ \E k \in DOMAIN out_modes[a], k2 \in DOMAIN out_modes[b] :
            drm_mode_equal(out_modes[a][k], out_modes[b][k2])

\* C20: in drm_pick_crtcs, an output that can clone another output on a CRTC
\* gets that CRTC, and the CRTC's desired_mode becomes a mode of the output's
\* list that equals a mode of the other output's list.
C20_CloneSharesCrtc ==
    PickRan =>
        \A a, b \in Outputs, c \in CRTCs :
            CloneCase(a, b, c) =>
                /\ output_crtc[a] = c
                /\ \E k \in DOMAIN out_modes[a], k2 \in DOMAIN out_modes[b] :
                     /\ drm_mode_equal(out_modes[a][k], out_modes[b][k2])
                     /\ crtc[c].desired_mode = out_modes[a][k]

\* Outputs a and b may be clones: their possible_clones masks share a bit and
\* their mode lists share a mode (drm_mode_equal).
MayClone(a, b) ==
    /\ (possible_clones[a] \cap possible_clones[b]) # {}
    /\ \E k \in DOMAIN out_modes[a], k2 \in DOMAIN out_modes[b] :
            drm_mode_equal(out_modes[a][k], out_modes[b][k2])

\* C21: when drm_pick_crtcs has run, two different outputs have the same CRTC
\* only if their possible_clones masks share a bit and their mode lists share
\* a mode; in every other case a CRTC has at most one output.
C21_SharedCrtcOnlyForClones ==
    PickRan =>
        \A a, b \in Outputs :
            (a # b /\ output_crtc[a] # NULL /\ output_crtc[a] = output_crtc[b])
                => MayClone(a, b)

\* Two usable outputs that may not be clones both had the first CRTC in their
\* masks, and the assignment gave them different CRTCs.
C21_Witness ==
    /\ PickRan
    /\ \E a, b \in Outputs :
        /\ a # b
        /\ Usable(a) /\ Usable(b)
        /\ ~MayClone(a, b)
        /\ 1 \in possible_crtcs[a] \cap possible_crtcs[b]
        /\ output_crtc[a] # NULL
        /\ output_crtc[b] # NULL
        /\ output_crtc[a] # output_crtc[b]

\* The CRTC the assignment gives output o, written from what the assignment
\* reads: status, mode list, possible_crtcs and the bindings at scan time.
AssignedCrtc(o) ==
    IF Usable(o) /\ FreeFor(o) # {}
    THEN CHOOSE c \in FreeFor(o) : \A d \in FreeFor(o) : c <= d
    ELSE NULL

\* The desired mode the assignment leaves on CRTC c: that of the output it
\* bound to c, else the one the CRTC had.
AssignedMode(c) ==
    IF \E o \in Outputs : AssignedCrtc(o) = c
    THEN WantedMode(CHOOSE o \in Outputs : AssignedCrtc(o) = c)
    ELSE last.pre.crtc[c].desired_mode

\* C22: the bindings and the desired modes drm_pick_crtcs produces are a
\* function of the outputs' status, mode lists and masks, the CRTC order and
\* the bindings found: two runs on equal stores end with equal bindings and
\* equal desired modes.
C22_AssignmentDetermined ==
    PickRan =>
        /\ \A o \in Outputs : output_crtc[o] = AssignedCrtc(o)
        /\ \A c \in CRTCs : crtc[c].desired_mode = AssignedMode(c)

\* An assignment that found bindings in place, bound an output and left a
\* CRTC's desired mode as it was.
C22_Witness ==
    /\ PickRan
    /\ \E o \in Outputs : last.pre.output_crtc[o] # NULL
    /\ \E o \in Outputs : output_crtc[o] # NULL
    /\ \E o \in Outputs : output_crtc[o] # last.pre.output_crtc[o]
    /\ \E c \in CRTCs :
        /\ \A o \in Outputs : output_crtc[o] # c
        /\ crtc[c].desired_mode # NoMode

\* The device of the scenario after drm_initial_config, which found no output
\* bound: output 1 connected, every CRTC in its mask, its list the larger
\* mode flagged preferred followed by the smaller one; output 2 disconnected.
TwoHeadScenario ==
    /\ last.req.op = "initial_config"
    /\ ~last.oops
    /\ \A o \in Outputs : last.pre.output_crtc[o] = NULL
    /\ possible_crtcs[1] = CRTCs
    /\ out_status[1] = "connected"
    /\ Len(out_modes[1]) = 2
    /\ out_modes[1][1].hdisplay > out_modes[1][2].hdisplay
    /\ out_modes[1][1].type = {"PREFERRED"}
    /\ out_modes[1][2].type = {}
    /\ out_status[2] = "disconnected"

HotplugStep ==
    /\ ncalls' = ncalls + 1
    /\ last'.req.op \in {"hotplug", "unplug"}

\* C31: the hotplug counter starts at 0, every call of drm_hotplug_stage_two
\* adds exactly one to it whatever the connection state and the outcome, and
\* no other step changes it.
C31_HotplugCounter ==
    /\ hotplug_counter = 0
    /\ [][hotplug_counter' = IF HotplugStep THEN hotplug_counter + 1
                             ELSE hotplug_counter]_vars

\* Two events were counted, the second one for an output reported not
\* connected.
C31_Witness ==
    /\ hotplug_counter = 2
    /\ last.req.op = "unplug"

\* The bindings drm_pick_crtcs produces now from the bindings oc.
Assignment(oc) ==
    drm_pick_crtcs(oc, crtc, out_status, out_modes, possible_crtcs,
                   possible_clones).output_crtc

\* C39: when drm_initial_config has run, a second run of the assignment with
\* the same connection status, modes and masks gives the same bindings, and
\* the bindings are those the assignment gives from a device with no output
\* bound: they do not depend on the bindings in place before the call.
C39_AssignIdempotentAndFresh ==
    last.req.op = "initial_config" =>
        /\ Assignment(output_crtc) = output_crtc
        /\ output_crtc = Assignment([o \in Outputs |-> NULL])

\* ---------------------------------------- properties of the entity store
\* The ioctl that has just returned destroyed framebuffers.
DestroyedFbs ==
    /\ ioctl.op \in {"rmfb", "fb_release"}
    /\ ioctl.ret = 0
    /\ ioctl.puts # <<>>

\* C13: after any sequence of drm_mode_addfb, drm_mode_rmfb, drm_fb_release
\* and drm_crtc_set_config calls, crtc->fb of every CRTC is NULL or the
\* address of a framebuffer on fb_list; and when drm_framebuffer_destroy
\* releases a framebuffer's identifier no CRTC points at that framebuffer any
\* more.
C13_FbRefsLive ==
    /\ \A c \in CRTCs :
        \/ crtc[c].fb = NULL
        \/ \E e \in Listed(ents, "fb") : e.n = crtc[c].fb
    /\ DestroyedFbs =>
        \A k \in DOMAIN ioctl.puts : ioctl.puts[k].refs = {}

\* A framebuffer that a CRTC was scanning out has been destroyed and the CRTC
\* has no framebuffer now.
C13_Witness ==
    /\ DestroyedFbs
    /\ \E c \in CRTCs, k \in DOMAIN ioctl.puts :
        /\ ioctl.pre.crtc[c].fb = ioctl.puts[k].fb
        /\ ioctl.puts[k].id \notin crtc_idr
        /\ crtc[c].fb = NULL

\* The ioctl in `ioctl` left the lists, the registry, the CRTCs, the bindings
\* and the files' framebuffer lists as it found them.
StoreUnchanged ==
    /\ ents = ioctl.pre.ents
    /\ crtc_idr = ioctl.pre.crtc_idr
    /\ crtc = ioctl.pre.crtc
    /\ output_crtc = ioctl.pre.output_crtc
    /\ file_fbs = ioctl.pre.file_fbs

\* The kind of object each single-identifier ioctl is to resolve.
LookupKind ==
    [getcrtc |-> "crtc", getoutput |-> "output", getfb |-> "fb",
     rmfb |-> "fb", getproperty |-> "property", getblob |-> "blob"]

\* The identifiers the ioctl that has just returned had to resolve, each with
\* the kind of object it is to name.
Given ==
    IF ioctl.op \in DOMAIN LookupKind
    THEN {<<ioctl.args.id, LookupKind[ioctl.op]>>}
    ELSE IF ioctl.op = "setcrtc"
    THEN LET rq == ioctl.args.rq
         IN {<<rq.crtc_id, "crtc">>}
            \cup (IF rq.mode_valid /\ rq.fb_id # -1
                  THEN {<<rq.fb_id, "fb">>} ELSE {})
            \cup {<<i, "output">> : i \in rq.out_ids}
    ELSE {}

\* C14: no two objects on the device's lists carry the same identifier and
\* every identifier carried is at least 1, after any sequence of creations
\* and destructions.
C14_IdsUniqueAndPositive ==
    \A e \in ents :
        /\ e.id >= 1
        /\ \A e2 \in ents : e2.id = e.id => e2 = e

\* Every identifier given that is in the registry names an object of the
\* kind the ioctl is to resolve.
KindsRight ==
    \A g \in Given :
        idr_find(ioctl.pre.crtc_idr, ioctl.pre.ents, g[1]).kind \in {"none", g[2]}

\* C15: an ioctl given an identifier that drm_idr_put released, and that has
\* not been handed out again, returns -EINVAL and leaves the store as it was
\* (the other identifiers it is given naming objects of the right kind).
C15_ReleasedIdNotFound ==
    \A g \in Given :
        (KindsRight /\ g[1] \in ioctl.pre.released /\ g[1] \notin crtc_idr) =>
            /\ ioctl.ret = -EINVAL
            /\ StoreUnchanged

\* The ioctl that has just returned created an object, with memory for it,
\* while drm_idr_get had no identifier to give.
AllocFailed ==
    /\ ioctl.op \in {"addfb", "property_create"}
    /\ ioctl.args.how = "ok"
    /\ drm_idr_get(ioctl.pre.crtc_idr) = 0

\* C16: when drm_idr_get cannot supply an identifier the creating operation
\* reports failure (drm_mode_addfb a non-zero code, drm_property_create NULL)
\* and no list of the device has a new object.
C16_AllocFailureReported ==
    AllocFailed =>
        /\ IF ioctl.op = "addfb" THEN ioctl.ret # 0 ELSE ioctl.ret = NULL
        /\ ents = ioctl.pre.ents

\* C17: an ioctl given the identifier of a live object of another kind than
\* the one it is to resolve returns -EINVAL and leaves the store as it was.
C17_WrongKindNotFound ==
    \A g \in Given :
        LET e == idr_find(ioctl.pre.crtc_idr, ioctl.pre.ents, g[1])
        IN (e # NoEnt /\ e.kind # g[2]) =>
            /\ ioctl.ret = -EINVAL
            /\ ~last.oops
            /\ StoreUnchanged

\* The drm_mode_setcrtc request that has just returned named a CRTC, and a
\* framebuffer if it named one, and had a malformed shape: outputs without
\* mode and framebuffer, or a mode without outputs.
MalformedSetcrtc ==
    /\ ioctl.op = "setcrtc"
    /\ LET rq == ioctl.args.rq
           Kind(id) == idr_find(ioctl.pre.crtc_idr, ioctl.pre.ents, id).kind
       IN /\ Kind(rq.crtc_id) = "crtc"
          /\ \/ rq.out_ids # {} /\ ~rq.mode_valid
             \/ /\ rq.out_ids = {}
                /\ rq.mode_valid
                /\ rq.fb_id = -1 \/ Kind(rq.fb_id) = "fb"

\* C18: a drm_mode_setcrtc request of malformed shape returns -EINVAL and
\* changes no binding, no CRTC field and no entry of the registry.
C18_MalformedSetcrtcRejected ==
    MalformedSetcrtc =>
        /\ ioctl.ret = -EINVAL
        /\ output_crtc = ioctl.pre.output_crtc
        /\ crtc = ioctl.pre.crtc
        /\ crtc_idr = ioctl.pre.crtc_idr

\* Bit i of a getcrtc bitmask, bit 0 being the lowest.
BitSet(mask, i) == (mask \div (2 ^ i)) % 2 = 1

\* A getcrtc call that found CRTC c has just returned.
GetcrtcFound(c) ==
    /\ ioctl.op = "getcrtc"
    /\ ioctl.ret = 0
    /\ ioctl.args.id = c

\* C32: for an enabled CRTC the bitmask getcrtc reports has bit i set exactly
\* when the i-th output in device order is bound to that CRTC; for a disabled
\* CRTC the bitmask is 0 and the mode is reported as not valid.
C32_GetcrtcBitmask ==
    \A c \in CRTCs :
        GetcrtcFound(c) =>
            IF crtc[c].enabled
            THEN \A o \in Outputs :
                    BitSet(ioctl.args.resp.outputs, o - 1) <=> output_crtc[o] = c
            ELSE /\ ioctl.args.resp.outputs = 0
                 /\ ioctl.args.resp.mode_valid = 0

\* ------------------------------------------ properties of the mode lists
\* The output the call in `last` was about.
ProbedOutput == CHOOSE o \in Outputs : last.req.outputs = {o}

\* drm_crtc_probe_single_output_modes has just returned.
ProbeRan == last.req.op = "probe"

\* It found the output not disconnected and pruning left no mode.
NothingUsable ==
    /\ ProbeRan
    /\ out_status[ProbedOutput] # "disconnected"
    /\ last.pruned = <<>>

\* The mode is the built-in 640x480 at 60 Hz.
IsStdMode(m) == m.hdisplay = 640 /\ m.vdisplay = 480 /\ m.vrefresh = 60

Members(l) == [k \in DOMAIN l |-> [l[k] EXCEPT !.status = MODE_OK]]

\* drm_crtc_probe_single_output_modes has just found the output disconnected.
FoundDisconnected ==
    /\ ProbeRan
    /\ \E i \in DOMAIN calls :
        calls[i].fn = "detect" /\ calls[i].ret = "disconnected"

\* C25: a probe whose detect callback reports disconnected calls neither
\* get_modes nor mode_valid, leaves the membership and order of the usable,
\* probed and user lists as they were, records the status disconnected and
\* leaves every usable mode unverified.
C25_DisconnectedProbe ==
    FoundDisconnected =>
        /\ \A i \in DOMAIN calls : calls[i].fn \notin {"get_modes", "mode_valid"}
        /\ Members(out_modes[ProbedOutput])
             = Members(last.lists.modes[ProbedOutput])
        /\ \A o \in Outputs \ {ProbedOutput} :
             out_modes[o] = last.lists.modes[o]
        /\ probed_modes = last.lists.probed
        /\ user_modes = last.lists.user
        /\ out_status[ProbedOutput] = "disconnected"
        /\ \A k \in DOMAIN out_modes[ProbedOutput] :
             out_modes[ProbedOutput][k].status = MODE_UNVERIFIED

\* The disconnected output had a verified usable mode and a user mode.
C25_Witness ==
    /\ FoundDisconnected
    /\ \E k \in DOMAIN last.lists.modes[ProbedOutput] :
         last.lists.modes[ProbedOutput][k].status = MODE_OK
    /\ user_modes[ProbedOutput] # <<>>

\* --------------------------------------- properties of the property system
\* drm_property_add_enum has just returned from a call whose value was on the
\* property's enum list.
ReRegistered ==
    /\ last.req.op = "add_enum"
    /\ EnumAt(last.props.props[last.args.n], last.args.value) # {}

\* The values of an enum list, in list order.
EnumValues(p) == [k \in DOMAIN p.enums |-> p.enums[k].value]

\* C26: drm_property_add_enum with a value already on the enum list returns 0,
\* gives that entry the new name (as strncpy stores it), leaves the number and
\* order of the entries and every other name as they were; and at all times no
\* two entries of a property hold the same value.
C26_AddEnumReplacesName ==
    /\ \A n \in DOMAIN props : \A j, k \in DOMAIN props[n].enums :
          props[n].enums[j].value = props[n].enums[k].value => j = k
    /\ ReRegistered =>
         LET old == last.props.props[last.args.n]
             new == props[last.args.n]
             k0  == SetMin(EnumAt(old, last.args.value))
         IN /\ last.ret = 0
            /\ EnumValues(new) = EnumValues(old)
            /\ new.enums[k0].name = StoredName(last.args.name)
            /\ \A k \in DOMAIN old.enums \ {k0} :
                  new.enums[k].name = old.enums[k].name
            /\ new.values = old.values

\* A second entry existed and the re-registered entry got a different name.
C26_Witness ==
    /\ ReRegistered
    /\ Len(props[last.args.n].enums) = 2
    /\ \E k \in DOMAIN props[last.args.n].enums :
          /\ props[last.args.n].enums[k].value = last.args.value
          /\ props[last.args.n].enums[k].name = last.args.name
          /\ last.props.props[last.args.n].enums[k].name # last.args.name

\* drm_output_attach_property has just returned.
AttachRan == last.req.op = "attach"

\* C27: drm_output_attach_property writes the property's identifier and the
\* initial value into the lowest slot whose identifier is 0 and leaves every
\* other slot as it was; when no slot is empty it fails and leaves the arrays
\* as they were; the arrays always have DRM_OUTPUT_MAX_PROPERTY slots.
C27_AttachLowestEmptySlot ==
    /\ \A o \in Outputs :
          /\ DOMAIN out_props[o].ids = 1..DRM_OUTPUT_MAX_PROPERTY
          /\ DOMAIN out_props[o].values = 1..DRM_OUTPUT_MAX_PROPERTY
    /\ AttachRan =>
         LET old == last.props.out_props[last.args.o]
             new == out_props[last.args.o]
             E   == {i \in DOMAIN old.ids : old.ids[i] = 0}
         IN IF E = {}
            THEN last.ret < 0 /\ new = old
            ELSE /\ last.ret = 0
                 /\ new.ids[SetMin(E)] = last.args.id
                 /\ new.values[SetMin(E)] = last.args.value
                 /\ \A i \in DOMAIN old.ids \ {SetMin(E)} :
                       /\ new.ids[i] = old.ids[i]
                       /\ new.values[i] = old.values[i]

\* An attachment was refused because every slot was taken.
C27_Witness ==
    /\ AttachRan
    /\ last.ret < 0
    /\ \A i \in DOMAIN out_props[last.args.o].ids :
          out_props[last.args.o].ids[i] # 0

\* drm_mode_output_property_set_ioctl has just returned.
PropertySetRan == last.req.op = "property_set"

\* The request names an output, a property attached to it that is not
\* immutable, and a value of the property's domain.
Settable ==
    LET o == last.args.output_id - NumCrtcs
        P == {n \in DOMAIN props : props[n].id = last.args.prop_id}
    IN /\ o \in Outputs
       /\ P # {}
       /\ \E i \in DOMAIN last.props.out_props[o].ids :
             last.props.out_props[o].ids[i] = last.args.prop_id
       /\ \A n \in P :
             /\ "IMMUTABLE" \notin props[n].flags
             /\ IF "RANGE" \in props[n].flags
                THEN /\ props[n].values[1] <= last.args.value
                     /\ last.args.value <= props[n].values[2]
                ELSE last.args.value \in
                        {props[n].values[i] : i \in DOMAIN props[n].values}

\* C28: drm_mode_output_property_set_ioctl calls set_property only for a
\* property attached to the output, not immutable, with a value inside the
\* inclusive range or among the stored values; every other request returns an
\* error, calls nothing and leaves the stored values as they were.
C28_SetPropertyOnlyWhenValid ==
    PropertySetRan =>
        /\ (calls # <<>>) => Settable
        /\ ~Settable =>
              /\ last.ret < 0
              /\ calls = <<>>
              /\ out_props = last.props.out_props

\* Both bounds of a range were passed to the driver, and a value outside was
\* refused.
C28_Witness ==
    /\ PropertySetRan
    /\ calls # <<>>
    /\ \E n \in DOMAIN props :
          /\ props[n].id = last.args.prop_id
          /\ "RANGE" \in props[n].flags
          /\ last.args.value = props[n].values[2]

\* ------------------------------------------------ properties of the mutex
\* The thread has left its entry point: by return, or by a fault.
LeftEntryPoint(t) == thread[t].pc \in {"returned", "oops"}

\* C29: a thread that took the mode_config mutex in an entry point and has
\* left the entry point took it exactly once, released it once and does not
\* hold it any more.
C29_LockReleasedOnEveryExit ==
    \A t \in Threads :
        (LeftEntryPoint(t) /\ thread[t].locks > 0) =>
            /\ thread[t].locks = 1
            /\ thread[t].unlocks = 1
            /\ mutex # t

\* The thread is between the first write of drm_crtc_set_config's binding
\* loop and the end of the call: the bindings may be partly updated or about
\* to be restored.
MidTransaction(t) == thread[t].pc \in {"writing", "restoring"}

\* The thread has copied out bindings in drm_mode_getcrtc or
\* drm_mode_getoutput and not yet reached mutex_unlock.
HasRead(t) ==
    /\ thread[t].fn \in Readers
    /\ thread[t].pc = "out"
    /\ thread[t].seen # <<>>

\* C30: when drm_mode_getcrtc or drm_mode_getoutput has read the bindings, no
\* drm_mode_setcrtc is between the start of its binding loop and the end of
\* its call (restore loop included), and what was read is the bindings as
\* they stand.
C30_ReadersSeeNoIntermediateBindings ==
    \A r \in Threads :
        HasRead(r) =>
            /\ thread[r].seen[1] = Observed(output_crtc)
            /\ \A s \in Threads \ {r} : ~MidTransaction(s)

\* A reader has read bindings an earlier setcrtc left, while another setcrtc
\* waits for the mutex.
C30_Witness ==
    \E r, s \in Threads :
        /\ HasRead(r)
        /\ \E o \in Outputs : thread[r].seen[1][o] # NULL
        /\ thread[s].fn = "setcrtc"
        /\ thread[s].pc = "entry"

\* ------------------------------- properties of creation and teardown
\* C34: drm_output_create and drm_output_destroy, called as their LOCKING
\* paragraphs ask with the mode_config mutex held, and drm_mode_config_cleanup
\* called with it held, never wait in mutex_lock for a mutex their own
\* thread holds.
C34_NoSelfDeadlock ==
    \A t \in Threads :
        (thread[t].fn \in KernelFns /\ thread[t].pc = "lock") => mutex # t

\* The identifiers of the objects that exist: the listed entities and the
\* modes on the lists of the outputs of output_list.
LiveIds ==
    {e.id : e \in ents}
    \cup UNION {ModeIds(probed_modes[o]) \cup ModeIds(out_modes[o])
                \cup ModeIds(user_modes[o]) : o \in LiveOutputs(ents)}

\* C35: when drm_output_destroy has returned, no identifier of a mode that
\* was on the output's probed, usable or user list is in the registry any
\* more, and the registry holds only identifiers of objects that still exist.
C35_OutputTeardownReleasesModeIds ==
    \A t \in Threads :
        (thread[t].fn = "output_destroy" /\ thread[t].pc = "returned") =>
            /\ thread[t].seen[1] \cap crtc_idr = {}
            /\ crtc_idr \subseteq LiveIds

\* C36: when drm_crtc_destroy has returned, no output of output_list is bound
\* to the destroyed CRTC; and while drm_mode_config_cleanup runs, a CRTC is
\* gone only when every output is.
C36_NoBindingToDestroyedCrtc ==
    \A t \in Threads :
        /\ (thread[t].fn = "crtc_destroy" /\ thread[t].pc = "returned") =>
              \A o \in LiveOutputs(ents) : output_crtc[o] # thread[t].k
        /\ (thread[t].fn = "config_cleanup"
              /\ LiveCrtcs(ents) # LiveCrtcs(thread[t].args.pre.ents)) =>
              LiveOutputs(ents) = {}

\* C37: after an EDID update of an output, the value of the output's EDID
\* property is the identifier of a blob on property_blob_list that the
\* registry resolves; the blob the output had before is off the list and its
\* identifier is not in the registry; the output has at most one blob.
C37_EdidBlobReplaced ==
    ioctl.op = "update_edid" =>
        LET o == ioctl.args.output
            old == ioctl.args.old
        IN /\ \E b \in Listed(ents, "blob") :
                 b.id = EdidValue(out_props[o]) /\ b.id \in crtc_idr
           /\ old # NoEnt => old.id \notin crtc_idr
           /\ Cardinality({b \in Listed(ents, "blob") : b.n = o}) <= 1

====
